---- MODULE Spec2Model ----
(***************************************************************************)
(* Storable library objects of edaparts: the request handlers of           *)
(* services/storable_objects_service.py and the background store / delete  *)
(* tasks they schedule, over the rows of footprint_ref / library_ref, the  *)
(* files below MODELS_BASE_DIR and the lock files below LOCKS_DIR.         *)
(*                                                                         *)
(* One slot is one HTTP request followed by the BackgroundTasks job it     *)
(* schedules.  A coroutine is interleaved with the others at its awaits    *)
(* (database round trips); the synchronous code that follows an await is   *)
(* part of the same step.  filelock.FileLock is entered with a plain       *)
(* `with`: a task that finds the lock taken blocks the event loop of its   *)
(* worker process until it gets the lock or the 30 s timeout raises.       *)
(***************************************************************************)
EXTENDS Integers, FiniteSets, Sequences, Bags, TLC

\* ---------------------------------------------------------------- bounds
\* request/task pipelines the model holds
MaxSlots == 3
\* requests the clients send in the scenario with every operation
MaxRequests == 2
\* data-layer (SQLAlchemyError) and file-copy (OSError) failures injected
MaxFaults == 1
\* server worker processes (each one event loop)
NumWorkers == 2
\* calls of the component service
MaxCalls == 3
NumCategories == 3

Slots == 1..MaxSlots
Workers == 1..NumWorkers
Calls == 1..MaxCalls

\* ------------------------------------------------------------ enumerations
None == "None"

KICAD == "kicad"
ALTIUM == "altium"
CadType == {ALTIUM, KICAD}

FOOTPRINT == "footprint"
SYMBOL == "symbol"
StorableLibraryResourceType == {FOOTPRINT, SYMBOL}

NOT_STORED == "NOT_STORED"
STORING == "STORING"
STORED == "STORED"
STORAGE_FAILED == "STORAGE_FAILED"
DELETING == "DELETING"
StorageStatus == {NOT_STORED, STORING, STORED, STORAGE_FAILED, DELETING}

\* ------------------------------------------------------------------ paths
\* A relative path is its directory segments, the file's stem and extension.
Path(dir, base, ext) == [dir |-> dir, base |-> base, ext |-> ext, abs |-> FALSE]
NoPath == [dir |-> <<>>, base |-> "", ext |-> "", abs |-> FALSE]

SymPath == Path(<<>>, "lib", "kicad_sym")
SchPath == Path(<<>>, "lib", "schlib")
FpPathX == Path(<<"L.pretty">>, "x", "kicad_mod")
FpPathY == Path(<<"L.pretty">>, "y", "kicad_mod")
FpPathN == Path(<<"L.pretty", "M.pretty">>, "x", "kicad_mod")
BadPath == Path(<<"symbols">>, "lib", "kicad_sym")

\* os.path.dirname
Dirname(path) == path.dir

\* str.startswith(parent_dir) on the joined path, segment by segment
StartsWith(path, parent_dir) ==
    /\ Len(parent_dir) <= Len(path.dir)
    /\ \A i \in 1..Len(parent_dir) : path.dir[i] = parent_dir[i]

PrettyDirs == {"L.pretty", "M.pretty"}
ReservedPrefixes == {"footprints", "symbols"}

FirstSegment(path) == IF Len(path.dir) > 0 THEN path.dir[1] ELSE path.base

ExpectedExtension(cad_type, file_type) ==
    IF cad_type = KICAD
    THEN (IF file_type = FOOTPRINT THEN "kicad_mod" ELSE "kicad_sym")
    ELSE (IF file_type = FOOTPRINT THEN "pcblib" ELSE "schlib")

\* __validate_input_path: TRUE when no ApiError is raised
ValidInputPath(path, cad_type, file_type) ==
    /\ ~path.abs
    /\ FirstSegment(path) \notin ReservedPrefixes
    /\ (cad_type = KICAD /\ file_type = FOOTPRINT) =>
          (Len(path.dir) > 0 /\ path.dir[Len(path.dir)] \in PrettyDirs)
    /\ path.ext = ExpectedExtension(cad_type, file_type)

\* ------------------------------------------------------------ file content
\* The bytes of a library file: the parts the parser finds in it, the kind of
\* its first part, and a tag telling apart files that hold the same parts.
File(refs, kind, tag) == [refs |-> refs, kind |-> kind, tag |-> tag]
NoFile == [refs |-> {}, kind |-> None, tag |-> 0]

\* hash_sha256: the digest identifies the bytes
hash_sha256(file) == <<"sha256", file.refs, file.kind, file.tag>>

\* parse_file + __get_library: TRUE when a Library is returned (no ApiError)
LibraryParses(file, expected_type) ==
    /\ file.refs # {}
    /\ file.kind = expected_type

\* Library.is_present
is_present(file, name) == name \in file.refs

\* Library.count
count(file) == Cardinality(file.refs)

\* description of a part as found in the library
LibDescription(file, name) == "from_lib"

\* --------------------------------------------------------------- the rows
Row(path, reference, cad_type, file_type, status, error, description, alias) ==
    [path |-> path, reference |-> reference, cad_type |-> cad_type,
     file_type |-> file_type, storage_status |-> status,
     storage_error |-> error, description |-> description, alias |-> alias]

\* the alias of a record that has none (NULL)
NoAlias == <<>>

NoRow == Row(NoPath, None, None, None, "NO_ROW", None, None, NoAlias)

\* __get_model_alias
get_model_alias(path, cad_type, file_type) ==
    IF cad_type # KICAD THEN NoAlias
    ELSE IF file_type = FOOTPRINT
         THEN <<"EDAPARTS", path.dir[Len(path.dir)]>>
         ELSE <<"EDAPARTS", path.dir, path.base>>

\* ------------------------------------------------------------------ state
VARIABLES
    rows,      \* id -> row of footprint_ref / library_ref (file_type tells which)
    nextId,    \* next surrogate key
    disk,      \* target path below MODELS_BASE_DIR -> bytes stored there
    lock,      \* lock file below LOCKS_DIR -> slot holding it
    slot,      \* slot -> the request and its background task
    faults,    \* failures injected so far
    scenario,  \* name of the set of requests the clients may send (fixed by Init)
    components,               \* id -> row of the component table
    inventory_items,          \* id -> row of the inventory_item table
    component_footprint_asc,  \* bag of <<component_id, footprint_ref_id>> rows
    nextComponentId,          \* next surrogate key of component
    nextItemId,               \* next surrogate key of inventory_item
    category_parent,          \* id -> parent_id of the inventory_category row
    stocks,                   \* id -> row of inventory_item_location_stock
    stock_movements,          \* rows of the stock movement table, in order
    call       \* call -> a call of a service and its position

inventory == <<category_parent, stocks, stock_movements>>

catalog == <<components, inventory_items, component_footprint_asc,
             nextComponentId, nextItemId, inventory, call>>

vars == <<rows, nextId, disk, lock, slot, faults, scenario, catalog>>

\* Config.MODELS_BASE_DIR, Config.LOCKS_DIR
MODELS_BASE_DIR == "MODELS_BASE_DIR"
LOCKS_DIR == "LOCKS_DIR"

\* __storable_base_dirs: <cad_type>/footprints or <cad_type>/symbols
storable_base_dirs(cad_type, file_type) ==
    <<cad_type, IF file_type = FOOTPRINT THEN "footprints" ELSE "symbols">>

\* a target path that leaves the directory of the cad_type and file_type out
get_target_object_path_flat(cad_type, file_type, path) ==
    <<MODELS_BASE_DIR, path>>

\* __get_target_object_path
get_target_object_path(cad_type, file_type, path) ==
    <<MODELS_BASE_DIR, storable_base_dirs(cad_type, file_type), path>>

\* __get_file_lock: the lock file mirrors the target path below LOCKS_DIR
get_file_lock(task) ==
    <<LOCKS_DIR, storable_base_dirs(task.cad_type, task.file_type), task.path,
      ".lock">>

IdleSlot ==
    [pc |-> "idle", op |-> None, worker |-> 0,
     path |-> NoPath, cad_type |-> None, file_type |-> None,
     req_cad_type |-> None, req_reference |-> None,
     reference |-> None, description |-> None, filename |-> NoFile,
     model_id |-> 0, model |-> NoRow, alias |-> NoAlias,
     pending_ref |-> FALSE, session_ok |-> TRUE, tmp |-> FALSE,
     error |-> None, escaped |-> FALSE, response |-> None, scheduled |-> FALSE]

\* ------------------------------------------------------------- the database
\* ids of the table that holds file_type (footprint_ref or library_ref)
TableIds(file_type) == {i \in DOMAIN rows : rows[i].file_type = file_type}

\* db.get(model_type, id)
db_get(file_type, id) == IF id \in TableIds(file_type) THEN rows[id] ELSE NoRow

\* the rows __get_stored_references_for_id selects
stored_siblings(task) ==
    {i \in TableIds(task.file_type) :
        /\ rows[i].path = task.path
        /\ rows[i].cad_type = task.cad_type
        /\ i # task.model_id
        /\ rows[i].storage_status = STORED}

\* __get_stored_references_for_id
get_stored_references_for_id(task) ==
    {rows[i].reference : i \in stored_siblings(task)}

\* __validate_kicad_footprint_duplication: TRUE when nothing is raised
\* (model_id 0 stands for model_id=None)
validate_kicad_footprint_duplication(path, reference, model_id) ==
    ~ \E i \in TableIds(FOOTPRINT) :
        /\ StartsWith(rows[i].path, Dirname(path))
        /\ rows[i].cad_type = KICAD
        /\ rows[i].reference = reference
        /\ (model_id = 0 \/ i # model_id)

\* __validate_storable_not_exists: TRUE when nothing is raised
validate_storable_not_exists(path, reference, file_type, cad_type, model_id) ==
    IF file_type = FOOTPRINT /\ cad_type = KICAD
    THEN validate_kicad_footprint_duplication(path, reference, model_id)
    ELSE ~ \E i \in TableIds(file_type) :
            /\ rows[i].path = path
            /\ rows[i].reference = reference
            /\ (model_id = 0 \/ i # model_id)

\* the UPDATE of __store_file_set_state, committed
store_file_set_state(model_id, file_type, status, error_description) ==
    IF model_id \in TableIds(file_type)
    THEN [rows EXCEPT ![model_id].storage_status = status,
                      ![model_id].storage_error = error_description]
    ELSE rows

\* ------------------------------------------------------------ the tasks
\* CreateUpdateDataStorableTask.filename is set by the two upload requests
HasFile(s) == slot[s].op \in {"create", "data"}

\* the StorableTask a slot's request built
Task(s) ==
    [model_id |-> slot[s].model_id, path |-> slot[s].path,
     file_type |-> slot[s].file_type, cad_type |-> slot[s].cad_type,
     reference |-> slot[s].reference,
     filename |-> IF HasFile(s) THEN slot[s].filename ELSE NoFile]

\* a worker whose event loop is inside FileLock.acquire runs nothing else
Blocked(t) == slot[t].pc = "t_blocked"

Runnable(s) ==
    \A t \in Slots \ {s} : ~(Blocked(t) /\ slot[t].worker = slot[s].worker)

\* leaving the `with` block releases the lock file
Release(s) == [k \in {k \in DOMAIN lock : lock[k] # s} |-> lock[k]]

\* an ApiError / SQLAlchemyError raised by the task body: the lock is released,
\* the finally clause removes the temp file, the error is kept for the update
Raise(s, msg, ok) ==
    /\ slot' = [slot EXCEPT ![s].pc = "t_failed", ![s].error = msg,
                            ![s].tmp = FALSE, ![s].session_ok = ok]
    /\ lock' = Release(s)

\* any other exception leaves _object_store_task: only the finally clause runs
Escape(s, msg) ==
    /\ slot' = [slot EXCEPT ![s].pc = "done", ![s].error = msg,
                            ![s].tmp = FALSE, ![s].escaped = TRUE]
    /\ lock' = Release(s)

\* __task_store_file: await __store_file_set_state(STORING)
TaskSetStoring(s) ==
    /\ slot[s].pc = "t_storing"
    /\ Runnable(s)
    /\ slot[s].session_ok
    /\ rows' = store_file_set_state(slot[s].model_id, slot[s].file_type, STORING, None)
    /\ slot' = [slot EXCEPT ![s].pc = "t_lock"]
    /\ UNCHANGED <<catalog, scenario, nextId, disk, lock, faults>>

\* __task_delete_model: await __store_file_set_state(DELETING)
TaskSetDeleting(s) ==
    /\ slot[s].pc = "d_deleting"
    /\ Runnable(s)
    /\ slot[s].session_ok
    /\ rows' = store_file_set_state(slot[s].model_id, slot[s].file_type, DELETING, None)
    /\ slot' = [slot EXCEPT ![s].pc = "t_lock"]
    /\ UNCHANGED <<catalog, scenario, nextId, disk, lock, faults>>

AfterLock(s) == IF slot[s].op = "delete" THEN "d_refs" ELSE "t_validate"

\* with __get_file_lock(storable_task): the first, non-blocking attempt
Acquire(s) ==
    /\ slot[s].pc = "t_lock"
    /\ Runnable(s)
    /\ IF get_file_lock(Task(s)) \in DOMAIN lock
       THEN /\ slot' = [slot EXCEPT ![s].pc = "t_blocked"]
            /\ lock' = lock
       ELSE /\ slot' = [slot EXCEPT ![s].pc = AfterLock(s)]
            /\ lock' = lock @@ (get_file_lock(Task(s)) :> s)
    /\ UNCHANGED <<catalog, scenario, rows, nextId, disk, faults>>

\* FileLock.acquire polling: the holder (of another worker) released the lock
AcquireAfterWait(s) ==
    /\ slot[s].pc = "t_blocked"
    /\ get_file_lock(Task(s)) \notin DOMAIN lock
    /\ slot' = [slot EXCEPT ![s].pc = AfterLock(s)]
    /\ lock' = lock @@ (get_file_lock(Task(s)) :> s)
    /\ UNCHANGED <<catalog, scenario, rows, nextId, disk, faults>>

\* FileLock(timeout=30): filelock.Timeout is neither SQLAlchemyError nor ApiError
LockTimeout(s) ==
    /\ slot[s].pc = "t_blocked"
    /\ get_file_lock(Task(s)) \in DOMAIN lock
    /\ Escape(s, "Timeout")
    /\ UNCHANGED <<catalog, scenario, rows, nextId, disk, faults>>

\* a validation that looks for the reference being stored only
store_file_validate_own_reference(task) ==
    \/ task.filename = NoFile
    \/ (task.cad_type = KICAD /\ task.file_type = FOOTPRINT)
    \/ /\ LibraryParses(task.filename, task.file_type)
       /\ is_present(task.filename, task.reference)

\* __store_file_validate: TRUE when no ApiError is raised
store_file_validate(task) ==
    \/ task.filename = NoFile
    \/ (task.cad_type = KICAD /\ task.file_type = FOOTPRINT)
    \/ /\ LibraryParses(task.filename, task.file_type)
       /\ \A reference \in get_stored_references_for_id(task) \cup {task.reference} :
              is_present(task.filename, reference)

\* __task_store_file: await __store_file_validate under the lock
TaskValidate(s) ==
    /\ slot[s].pc = "t_validate"
    /\ Runnable(s)
    /\ slot[s].session_ok
    /\ IF store_file_validate(Task(s))
       THEN /\ slot' = [slot EXCEPT ![s].pc = "t_readref"]
            /\ lock' = lock
       ELSE Raise(s, "will remove an existing reference", TRUE)
    /\ UNCHANGED <<catalog, scenario, rows, nextId, disk, faults>>

\* __task_store_file: select(model_type.reference)...one()
TaskReadRef(s) ==
    /\ slot[s].pc = "t_readref"
    /\ Runnable(s)
    /\ slot[s].session_ok
    /\ IF slot[s].model_id \notin TableIds(slot[s].file_type)
       THEN Raise(s, "NoResultFound", TRUE)
       ELSE /\ slot' = [slot EXCEPT ![s].pc =
                   IF rows[slot[s].model_id].reference # slot[s].reference
                   THEN "t_dupcheck"
                   ELSE IF HasFile(s) THEN "t_copy" ELSE "t_stored"]
            /\ lock' = lock
    /\ UNCHANGED <<catalog, scenario, rows, nextId, disk, faults>>

\* __task_store_file: the duplicate re-check before the reference is changed
TaskDupCheck(s) ==
    /\ slot[s].pc = "t_dupcheck"
    /\ Runnable(s)
    /\ slot[s].session_ok
    /\ IF validate_storable_not_exists(slot[s].path, slot[s].reference,
              slot[s].file_type, slot[s].cad_type, slot[s].model_id)
       THEN /\ slot' = [slot EXCEPT ![s].pc = "t_updref"]
            /\ lock' = lock
       ELSE Raise(s, "it already exists", TRUE)
    /\ UNCHANGED <<catalog, scenario, rows, nextId, disk, faults>>

\* __task_store_file: update(model_type).values(reference=...), not yet
\* committed; reference is NOT NULL, so a task without reference fails here and
\* leaves the transaction usable or aborted, as the database decides
TaskUpdateRef(s) ==
    /\ slot[s].pc = "t_updref"
    /\ Runnable(s)
    /\ slot[s].session_ok
    /\ IF slot[s].reference = None
       THEN \E ok \in BOOLEAN : Raise(s, "IntegrityError", ok)
       ELSE /\ slot' = [slot EXCEPT ![s].pending_ref = TRUE,
                           ![s].pc = IF HasFile(s) THEN "t_copy" ELSE "t_stored"]
            /\ lock' = lock
    /\ UNCHANGED <<catalog, scenario, rows, nextId, disk, faults>>

\* shutil.copy(storable_task.filename, target_file)
copy_file(s) ==
    [k \in DOMAIN disk \cup {get_target_object_path(slot[s].cad_type, slot[s].file_type, slot[s].path)} |->
        IF k = get_target_object_path(slot[s].cad_type, slot[s].file_type, slot[s].path)
        THEN slot[s].filename ELSE disk[k]]

TaskCopy(s) ==
    /\ slot[s].pc = "t_copy"
    /\ Runnable(s)
    /\ disk' = copy_file(s)
    /\ slot' = [slot EXCEPT ![s].pc = "t_stored"]
    /\ UNCHANGED <<catalog, scenario, rows, nextId, lock, faults>>

\* shutil.copy fails: OSError is not caught by _object_store_task
TaskCopyFault(s) ==
    /\ slot[s].pc = "t_copy"
    /\ Runnable(s)
    /\ faults < MaxFaults
    /\ faults' = faults + 1
    /\ Escape(s, "OSError")
    /\ UNCHANGED <<catalog, scenario, rows, nextId, disk>>

\* a commit that writes the reference of the task whether or not the task
\* had updated it
commit_reference_always(s, table) ==
    IF slot[s].model_id \in DOMAIN table
       /\ table[slot[s].model_id].file_type = slot[s].file_type
    THEN [table EXCEPT ![slot[s].model_id].reference = slot[s].reference]
    ELSE table

\* the pending UPDATE of the reference becomes visible with the commit
commit_reference(s, table) ==
    IF slot[s].pending_ref /\ slot[s].model_id \in DOMAIN table
       /\ table[slot[s].model_id].file_type = slot[s].file_type
    THEN [table EXCEPT ![slot[s].model_id].reference = slot[s].reference]
    ELSE table

\* __task_store_file: await __store_file_set_state(STORED), then the lock is
\* released and the temp file removed
TaskSetStored(s) ==
    /\ slot[s].pc = "t_stored"
    /\ Runnable(s)
    /\ slot[s].session_ok
    /\ rows' = commit_reference(s,
          store_file_set_state(slot[s].model_id, slot[s].file_type, STORED, None))
    /\ slot' = [slot EXCEPT ![s].pc = "done", ![s].tmp = FALSE,
                            ![s].pending_ref = FALSE]
    /\ lock' = Release(s)
    /\ UNCHANGED <<catalog, scenario, nextId, disk, faults>>

\* _object_store_task: await __store_file_set_state(STORAGE_FAILED, str(error))
\* through the session of the task body; a SQLAlchemyError is logged only
TaskSetFailed(s) ==
    /\ slot[s].pc = "t_failed"
    /\ Runnable(s)
    /\ rows' = IF slot[s].session_ok
               THEN commit_reference(s, store_file_set_state(slot[s].model_id,
                        slot[s].file_type, STORAGE_FAILED, slot[s].error))
               ELSE rows
    /\ slot' = [slot EXCEPT ![s].pc = "done", ![s].pending_ref = FALSE]
    /\ UNCHANGED <<catalog, scenario, nextId, disk, lock, faults>>

\* the task step awaits the database (__store_file_validate returns early for
\* tasks without a file and for KiCad footprints, and parses before it queries)
DbRoundTrip(s) ==
    \/ slot[s].pc \in {"t_readref", "t_dupcheck", "t_updref", "d_refs", "d_delete"}
    \/ /\ slot[s].pc = "t_validate"
       /\ HasFile(s)
       /\ ~(slot[s].cad_type = KICAD /\ slot[s].file_type = FOOTPRINT)
       /\ LibraryParses(slot[s].filename, slot[s].file_type)

\* a statement of the task body raises SQLAlchemyError: a new failure, which
\* leaves the session usable or not, or the session a failure left unusable
TaskDbError(s) ==
    /\ DbRoundTrip(s)
    /\ Runnable(s)
    /\ \/ /\ ~slot[s].session_ok
          /\ faults' = faults
          /\ Raise(s, "SQLAlchemyError", FALSE)
       \/ /\ slot[s].session_ok
          /\ faults < MaxFaults
          /\ faults' = faults + 1
          /\ \E ok \in BOOLEAN : Raise(s, "SQLAlchemyError", ok)
    /\ UNCHANGED <<catalog, scenario, rows, nextId, disk>>

\* the same inside __store_file_set_state, whose except clause only logs it:
\* the task goes on as if the state had been written
TaskSetStateError(s) ==
    /\ slot[s].pc \in {"t_storing", "d_deleting", "t_stored"}
    /\ Runnable(s)
    /\ \E ok \in BOOLEAN :
          /\ \/ /\ ~slot[s].session_ok
                /\ ~ok
                /\ faults' = faults
             \/ /\ slot[s].session_ok
                /\ faults < MaxFaults
                /\ faults' = faults + 1
          /\ IF slot[s].pc = "t_stored"
             THEN /\ slot' = [slot EXCEPT ![s].pc = "done", ![s].tmp = FALSE,
                                 ![s].pending_ref = FALSE, ![s].session_ok = ok,
                                 ![s].error = "state not saved"]
                  /\ lock' = Release(s)
             ELSE /\ slot' = [slot EXCEPT ![s].pc = "t_lock", ![s].session_ok = ok]
                  /\ lock' = lock
    /\ UNCHANGED <<catalog, scenario, rows, nextId, disk>>

\* __task_delete_model: the file goes only with the last stored reference
TaskDeleteRefs(s) ==
    /\ slot[s].pc = "d_refs"
    /\ Runnable(s)
    /\ slot[s].session_ok
    /\ disk' = IF get_stored_references_for_id(Task(s)) = {}
               THEN [k \in DOMAIN disk \ {get_target_object_path(slot[s].cad_type,
                        slot[s].file_type, slot[s].path)} |-> disk[k]]
               ELSE disk
    /\ slot' = [slot EXCEPT ![s].pc = "d_delete"]
    /\ UNCHANGED <<catalog, scenario, rows, nextId, lock, faults>>

\* __task_delete_model: delete(model_type).where(id == model_id), commit
TaskDeleteRow(s) ==
    /\ slot[s].pc = "d_delete"
    /\ Runnable(s)
    /\ slot[s].session_ok
    /\ rows' = [i \in DOMAIN rows \ (TableIds(slot[s].file_type) \cap {slot[s].model_id})
                  |-> rows[i]]
    /\ slot' = [slot EXCEPT ![s].pc = "done"]
    /\ lock' = Release(s)
    /\ UNCHANGED <<catalog, scenario, nextId, disk, faults>>

\* ------------------------------------------------------------ the scenario
\* The library stored before the requests arrive: a KiCad symbol library with
\* parts A, B and C, of which A and B are records, and the footprint x of
\* L.pretty.  Every row is one a create request and its store task leave.
SymFile == File({"A", "B", "C"}, SYMBOL, 1)
SymFileNew == File({"A", "B", "C"}, SYMBOL, 2)
SymFileTrimmed == File({"A", "C"}, SYMBOL, 3)
SchFile == File({"A", "B"}, SYMBOL, 4)
FpFileA == File({"A"}, FOOTPRINT, 5)
FpFileB == File({"B"}, FOOTPRINT, 6)
SchFileOne == File({"A"}, SYMBOL, 7)
SchFileEmpty == File({}, SYMBOL, 8)

StoredRow(path, reference, cad_type, file_type) ==
    Row(path, reference, cad_type, file_type, STORED, None, "from_lib",
        get_model_alias(path, cad_type, file_type))

InitRows ==
    (1 :> StoredRow(SymPath, "A", KICAD, SYMBOL)) @@
    (2 :> StoredRow(SymPath, "B", KICAD, SYMBOL)) @@
    (3 :> StoredRow(FpPathX, "A", KICAD, FOOTPRINT))

InitDisk ==
    (get_target_object_path(KICAD, SYMBOL, SymPath) :> SymFile) @@
    (get_target_object_path(KICAD, FOOTPRINT, FpPathX) :> FpFileA)

\* the requests the clients send
CreateRequests ==
    {[path |-> SchPath, cad_type |-> ALTIUM, file_type |-> SYMBOL,
      reference |-> ref, description |-> None, filename |-> SchFile] :
        ref \in {"A", "B"}}
    \cup
    {[path |-> FpPathY, cad_type |-> KICAD, file_type |-> FOOTPRINT,
      reference |-> None, description |-> None, filename |-> f] :
        f \in {FpFileA, FpFileB}}

ReuseRequests ==
    {[path |-> SymPath, cad_type |-> KICAD, file_type |-> SYMBOL,
      reference |-> ref, description |-> None] : ref \in {"A", "C"}}

DataRequests ==
    {[model_id |-> 1, file_type |-> SYMBOL, filename |-> f, reference |-> ref] :
        f \in {SymFile, SymFileNew, SymFileTrimmed}, ref \in {None, "C"}}

MetaRequests ==
    {[model_id |-> id, file_type |-> SYMBOL, cad_type |-> KICAD,
      reference |-> ref, description |-> d] :
        id \in {1, 2}, ref \in {None, "C"}, d \in {None, "edited"}}

DeleteRequests ==
    {[model_id |-> id, file_type |-> SYMBOL] : id \in {1, 2, 4}}
    \cup {[model_id |-> 3, file_type |-> FOOTPRINT]}

Scenario(requests, create, reuse, data, meta, delete) ==
    [requests |-> requests, create |-> create, reuse |-> reuse, data |-> data,
     meta |-> meta, delete |-> delete]

\* every operation, on the stored library and on new paths
Everything ==
    Scenario(MaxRequests, CreateRequests, ReuseRequests, DataRequests,
             MetaRequests, DeleteRequests)

\* uploads to one new symbol library and to a footprint file
Uploads ==
    Scenario(MaxSlots, CreateRequests, {}, {}, {}, {})

\* new bytes for record 1 of the stored symbol library, with and without its
\* sibling B, while record 2 (B) is deleted
Library ==
    Scenario(MaxRequests, {}, {},
             {r \in DataRequests : r.reference = None /\ r.filename # SymFile},
             {},
             {r \in DeleteRequests : r.model_id = 2})

\* the stored bytes sent again for record 1, the reference omitted or
\* repeated, next to an upload of new bytes
Repeated ==
    Scenario(MaxRequests, {}, {},
             {[model_id |-> 1, file_type |-> SYMBOL, filename |-> f,
               reference |-> ref] :
                 f \in {SymFile, SymFileNew}, ref \in {None, "A"}},
             {}, {})

\* metadata updates of the KiCad footprint record, with either cad_type in the
\* request, while the record is deleted
Footprints ==
    Scenario(MaxRequests, {}, {}, {},
             {[model_id |-> 3, file_type |-> FOOTPRINT, cad_type |-> c,
               reference |-> ref, description |-> d] :
                 c \in CadType, ref \in {None, "B"}, d \in {None, "edited"}},
             {r \in DeleteRequests : r.model_id = 3})

\* renames of the records of the stored symbol library to a part the file
\* holds (C) and to one it does not (D), with either cad_type in the request
Renames ==
    Scenario(MaxRequests, {}, {}, {},
             {[model_id |-> id, file_type |-> SYMBOL, cad_type |-> c,
               reference |-> ref, description |-> "edited"] :
                 id \in {1, 2}, c \in CadType, ref \in {"C", "D"}},
             {})

\* uploads that leave the reference out, of libraries with no part, one part
\* and two parts
Adoptions ==
    Scenario(MaxRequests,
             {[path |-> SchPath, cad_type |-> ALTIUM, file_type |-> SYMBOL,
               reference |-> None, description |-> None, filename |-> f] :
                 f \in {SchFileEmpty, SchFileOne, SchFile}}
             \cup {r \in CreateRequests : r.filename = FpFileB},
             {}, {}, {}, {})

\* one more reference for the stored symbol library, new bytes for record 1
\* and a rename with a new description for record 2
Aliases ==
    Scenario(MaxRequests, {},
             {r \in ReuseRequests : r.reference = "C"},
             {r \in DataRequests : r.filename = SymFileNew /\ r.reference = None},
             {r \in MetaRequests : r.model_id = 2 /\ r.reference = "C"
                                   /\ r.description = "edited"},
             {})

\* an upload that creates a symbol library, and create_from_existing requests
\* for that path (a reference it has, one its file holds, one its file lacks),
\* for the stored KiCad footprint and for the stored KiCad symbol library
Reuses ==
    Scenario(MaxRequests,
             {r \in CreateRequests : r.path = SchPath /\ r.reference = "A"},
             {[path |-> SchPath, cad_type |-> ALTIUM, file_type |-> SYMBOL,
               reference |-> ref, description |-> None] : ref \in {"A", "B", "D"}}
             \cup {[path |-> FpPathX, cad_type |-> KICAD, file_type |-> FOOTPRINT,
                    reference |-> "B", description |-> None]}
             \cup {r \in ReuseRequests : r.reference = "C"},
             {}, {}, {})

\* uploads of KiCad footprints to the directory of the stored footprint and
\* to a directory below it
Directories ==
    Scenario(MaxRequests,
             {[path |-> path, cad_type |-> KICAD, file_type |-> FOOTPRINT,
               reference |-> None, description |-> None, filename |-> f] :
                 path \in {FpPathY, FpPathN}, f \in {FpFileA, FpFileB}},
             {}, {}, {}, {})

\* on the two records of the stored symbol library: a rename of record 2,
\* new bytes for record 1, the delete of record 1
Sharing ==
    Scenario(MaxRequests, {}, {},
             {r \in DataRequests : r.filename = SymFileTrimmed /\ r.reference = None},
             {r \in MetaRequests : r.model_id = 2 /\ r.reference = "C"
                                   /\ r.description = None},
             {r \in DeleteRequests : r.model_id = 1})

\* update_metadata requests that send a description and no reference
Descriptions ==
    Scenario(MaxRequests, {}, {}, {},
             {r \in MetaRequests : r.reference = None /\ r.description = "edited"},
             {})

\* requests that fail a validation (a reserved path, a reference the library
\* lacks, a duplicate, a record that does not exist, a rename of a KiCad
\* footprint) and an upload that passes
Rejections ==
    Scenario(MaxRequests,
             {[path |-> BadPath, cad_type |-> KICAD, file_type |-> SYMBOL,
               reference |-> "A", description |-> None, filename |-> SymFile]}
             \cup {[path |-> SchPath, cad_type |-> ALTIUM, file_type |-> SYMBOL,
                    reference |-> ref, description |-> None, filename |-> SchFile] :
                      ref \in {"A", "C"}},
             {[path |-> SymPath, cad_type |-> KICAD, file_type |-> SYMBOL,
               reference |-> "A", description |-> None],
              [path |-> FpPathX, cad_type |-> KICAD, file_type |-> FOOTPRINT,
               reference |-> "B", description |-> None]},
             {[model_id |-> 9, file_type |-> SYMBOL, filename |-> SymFileNew,
               reference |-> None]}
             \cup {[model_id |-> 1, file_type |-> SYMBOL, filename |-> SymFileNew,
                    reference |-> ref] : ref \in {"B", "D"}},
             {[model_id |-> 9, file_type |-> SYMBOL, cad_type |-> KICAD,
               reference |-> "C", description |-> None],
              [model_id |-> 3, file_type |-> FOOTPRINT, cad_type |-> KICAD,
               reference |-> "B", description |-> None],
              [model_id |-> 1, file_type |-> SYMBOL, cad_type |-> KICAD,
               reference |-> "D", description |-> None]},
             {})

Requests ==
    CASE scenario = "uploads" -> Uploads
      [] scenario = "library" -> Library
      [] scenario = "repeated" -> Repeated
      [] scenario = "footprints" -> Footprints
      [] scenario = "renames" -> Renames
      [] scenario = "adoptions" -> Adoptions
      [] scenario = "aliases" -> Aliases
      [] scenario = "reuses" -> Reuses
      [] scenario = "directories" -> Directories
      [] scenario = "sharing" -> Sharing
      [] scenario = "descriptions" -> Descriptions
      [] scenario = "rejections" -> Rejections
      [] OTHER -> Everything

\* ---------------------------------------------------------- the requests
\* A request may start on a worker whose event loop is not blocked.  Slots and
\* workers are interchangeable: slots start in order, and a worker is used
\* only after the workers below it.
CanStart(s, w) ==
    /\ slot[s].pc = "idle"
    /\ Cardinality({t \in Slots : slot[t].pc # "idle"}) < Requests.requests
    /\ \A t \in Slots : t < s => slot[t].pc # "idle"
    /\ \A v \in Workers : v < w => \E t \in Slots : slot[t].worker = v
    /\ \A t \in Slots : ~(Blocked(t) /\ slot[t].worker = w)

\* a handler that adds its background task before it raises
rejected_after_add_task(base, error) ==
    [base EXCEPT !.pc = "done", !.response = error, !.tmp = FALSE,
                 !.scheduled = TRUE]

\* the handler raised: FastAPI answers with the error, TempCopiedFile.__exit__
\* unlinks the staged upload, nothing is scheduled
Rejected(base, error) ==
    [base EXCEPT !.pc = "done", !.response = error, !.tmp = FALSE]

\* create_storable_library_object: the reference of the request, or the name of
\* the only part of the library
InferredReference(r) ==
    IF r.reference # None THEN r.reference
    ELSE IF count(r.filename) = 1 THEN CHOOSE name \in r.filename.refs : TRUE
    ELSE None

\* a create that takes the first part of any library when no reference is sent
create_check_first_part(r) ==
    IF ~ValidInputPath(r.path, r.cad_type, r.file_type) THEN "ApiError"
    ELSE IF count(r.filename) = 0 THEN "ApiError"
    ELSE IF ~LibraryParses(r.filename, r.file_type) THEN "InvalidStorable"
    ELSE IF r.reference # None /\ ~is_present(r.filename, r.reference)
         THEN "InvalidStorable"
    ELSE IF ~validate_storable_not_exists(r.path, InferredReference(r),
                r.file_type, r.cad_type, 0)
         THEN "ResourceAlreadyExistsApiError"
    ELSE "ok"

\* create_storable_library_object up to its duplicate check: "ok" or the error
create_check(r) ==
    IF ~ValidInputPath(r.path, r.cad_type, r.file_type) THEN "ApiError"
    ELSE IF count(r.filename) = 0 THEN "ApiError"
    ELSE IF ~LibraryParses(r.filename, r.file_type) THEN "InvalidStorable"
    ELSE IF r.reference = None /\ count(r.filename) # 1 THEN "InvalidStorable"
    ELSE IF ~is_present(r.filename, InferredReference(r)) THEN "InvalidStorable"
    ELSE IF ~validate_storable_not_exists(r.path, InferredReference(r),
                r.file_type, r.cad_type, 0)
         THEN "ResourceAlreadyExistsApiError"
    ELSE "ok"

\* create_storable_library_object: validation, parsing, duplicate check
CreateCheck(s) ==
    \E w \in Workers, r \in Requests.create :
        /\ CanStart(s, w)
        /\ LET base == [IdleSlot EXCEPT !.op = "create", !.worker = w,
                          !.path = r.path, !.cad_type = r.cad_type,
                          !.req_cad_type = r.cad_type,
                          !.req_reference = r.reference,
                          !.file_type = r.file_type, !.filename = r.filename,
                          !.reference = InferredReference(r),
                          !.description = IF r.description # None THEN r.description
                                          ELSE LibDescription(r.filename, InferredReference(r)),
                          !.alias = get_model_alias(r.path, r.cad_type, r.file_type),
                          !.tmp = TRUE]
           IN slot' = [slot EXCEPT ![s] =
                  IF create_check(r) = "ok" THEN [base EXCEPT !.pc = "c_insert"]
                  ELSE Rejected([base EXCEPT !.reference = r.reference,
                                            !.description = r.description],
                                create_check(r))]
        /\ UNCHANGED <<catalog, scenario, rows, nextId, disk, lock, faults>>

\* db.add(model), commit, background_tasks.add_task (both create requests)
insert_model(s) ==
    rows @@ (nextId :> Row(slot[s].path, slot[s].reference, slot[s].cad_type,
                           slot[s].file_type, NOT_STORED, None,
                           slot[s].description, slot[s].alias))

CreateInsert(s) ==
    /\ slot[s].pc \in {"c_insert", "r_insert"}
    /\ Runnable(s)
    /\ rows' = insert_model(s)
    /\ nextId' = nextId + 1
    /\ slot' = [slot EXCEPT ![s].pc = "t_storing", ![s].model_id = nextId,
                            ![s].response = "ok", ![s].scheduled = TRUE,
                            ![s].model = insert_model(s)[nextId]]
    /\ UNCHANGED <<catalog, scenario, disk, lock, faults>>

\* __validate_kicad_reference_change: TRUE when nothing is raised
validate_kicad_reference_change(file_type, cad_type) ==
    ~(cad_type = KICAD /\ file_type = FOOTPRINT)

\* select(model).filter_by(cad_type=..., path=...)
path_references(r) ==
    {i \in TableIds(r.file_type) :
        rows[i].cad_type = r.cad_type /\ rows[i].path = r.path}

\* the file stored for a record, as __get_library finds it
StoredFile(cad_type, file_type, path) ==
    IF get_target_object_path(cad_type, file_type, path) \in DOMAIN disk
    THEN disk[get_target_object_path(cad_type, file_type, path)]
    ELSE NoFile

\* a check that is content with any record at the path, stored or not
reuse_check_any_status(r) ==
    IF ~ValidInputPath(r.path, r.cad_type, r.file_type) THEN "ApiError"
    ELSE IF ~validate_kicad_reference_change(r.file_type, r.cad_type) THEN "ApiError"
    ELSE IF path_references(r) = {} THEN "ApiError"
    ELSE IF \E i \in path_references(r) : rows[i].reference = r.reference THEN "ApiError"
    ELSE IF ~LibraryParses(StoredFile(r.cad_type, r.file_type, r.path), r.file_type)
         THEN "InvalidStorable"
    ELSE IF ~is_present(StoredFile(r.cad_type, r.file_type, r.path), r.reference)
         THEN "InvalidStorable"
    ELSE "ok"

\* create_storable_library_object_from_existing_file up to the library check
reuse_check(r) ==
    IF ~ValidInputPath(r.path, r.cad_type, r.file_type) THEN "ApiError"
    ELSE IF ~validate_kicad_reference_change(r.file_type, r.cad_type) THEN "ApiError"
    ELSE IF path_references(r) = {} THEN "ApiError"
    ELSE IF \E i \in path_references(r) : rows[i].reference = r.reference THEN "ApiError"
    ELSE IF ~\E i \in path_references(r) : rows[i].storage_status = STORED THEN "ApiError"
    ELSE IF ~LibraryParses(StoredFile(r.cad_type, r.file_type, r.path), r.file_type)
         THEN "InvalidStorable"
    ELSE IF ~is_present(StoredFile(r.cad_type, r.file_type, r.path), r.reference)
         THEN "InvalidStorable"
    ELSE "ok"

ReuseCheck(s) ==
    \E w \in Workers, r \in Requests.reuse :
        /\ CanStart(s, w)
        /\ LET base == [IdleSlot EXCEPT !.op = "reuse", !.worker = w,
                          !.path = r.path, !.cad_type = r.cad_type,
                          !.req_cad_type = r.cad_type,
                          !.file_type = r.file_type, !.reference = r.reference,
                          !.description = r.description]
           IN IF reuse_check(r) = "ok"
              THEN \E first \in path_references(r) :
                     slot' = [slot EXCEPT ![s] = [base EXCEPT !.pc = "r_dupcheck",
                        !.alias = rows[first].alias,
                        !.description = IF r.description # None THEN r.description
                            ELSE LibDescription(StoredFile(r.cad_type, r.file_type, r.path),
                                                r.reference)]]
              ELSE slot' = [slot EXCEPT ![s] = Rejected(base, reuse_check(r))]
        /\ UNCHANGED <<catalog, scenario, rows, nextId, disk, lock, faults>>

\* create_storable_library_object_from_existing_file: __validate_storable_not_exists
ReuseDupCheck(s) ==
    /\ slot[s].pc = "r_dupcheck"
    /\ Runnable(s)
    /\ slot' = [slot EXCEPT ![s] =
          IF validate_storable_not_exists(slot[s].path, slot[s].reference,
                 slot[s].file_type, slot[s].cad_type, 0)
          THEN [slot[s] EXCEPT !.pc = "r_insert"]
          ELSE Rejected(slot[s], "ResourceAlreadyExistsApiError")]
    /\ UNCHANGED <<catalog, scenario, rows, nextId, disk, lock, faults>>

\* a skip that wants the reference sent again
data_unchanged_same_reference(r, model) ==
    /\ model.storage_status = STORED
    /\ model.reference = r.reference
    /\ get_target_object_path(model.cad_type, r.file_type, model.path) \in DOMAIN disk
    /\ hash_sha256(StoredFile(model.cad_type, r.file_type, model.path))
          = hash_sha256(r.filename)

\* update_object_data: the skip of an upload identical to the stored file
data_unchanged(r, model) ==
    /\ model.storage_status = STORED
    /\ (r.reference = None \/ model.reference = r.reference)
    /\ get_target_object_path(model.cad_type, r.file_type, model.path) \in DOMAIN disk
    /\ hash_sha256(StoredFile(model.cad_type, r.file_type, model.path))
          = hash_sha256(r.filename)

\* update_object_data up to its duplicate check
data_check(r, model) ==
    IF model = NoRow THEN "ResourceNotFoundApiError"
    ELSE IF data_unchanged(r, model) THEN "skip"
    ELSE IF ~LibraryParses(r.filename, r.file_type) THEN "InvalidStorable"
    ELSE IF r.reference # None /\ ~is_present(r.filename, r.reference)
         THEN "InvalidStorable"
    ELSE IF r.reference = None /\ ~is_present(r.filename, model.reference)
         THEN "InvalidStorable"
    ELSE "ok"

\* update_object_data: db.get, the skip, the checks of the new library
DataGet(s) ==
    \E w \in Workers, r \in Requests.data :
        /\ CanStart(s, w)
        /\ LET model == db_get(r.file_type, r.model_id)
               base == [IdleSlot EXCEPT !.op = "data", !.worker = w,
                          !.model_id = r.model_id, !.file_type = r.file_type,
                          !.filename = r.filename, !.reference = r.reference,
                          !.model = model, !.path = model.path,
                          !.cad_type = model.cad_type, !.tmp = TRUE]
           IN slot' = [slot EXCEPT ![s] =
                  CASE data_check(r, model) = "ok" ->
                          [base EXCEPT !.pc = IF r.reference # None
                                              THEN "u_dupcheck" ELSE "u_commit"]
                    [] data_check(r, model) = "skip" ->
                          [base EXCEPT !.pc = "done", !.response = "ok"]
                    [] OTHER -> Rejected(base, data_check(r, model))]
        /\ UNCHANGED <<catalog, scenario, rows, nextId, disk, lock, faults>>

\* update_object_data: __validate_storable_not_exists for the new reference
DataDupCheck(s) ==
    /\ slot[s].pc = "u_dupcheck"
    /\ Runnable(s)
    /\ slot' = [slot EXCEPT ![s] =
          IF validate_storable_not_exists(slot[s].path, slot[s].reference,
                 slot[s].file_type, slot[s].cad_type, slot[s].model_id)
          THEN [slot[s] EXCEPT !.pc = "u_commit"]
          ELSE Rejected(slot[s], "ResourceAlreadyExistsApiError")]
    /\ UNCHANGED <<catalog, scenario, rows, nextId, disk, lock, faults>>

\* a flush that writes the row back without its alias
orm_flush_without_alias(s, status, description) ==
    [rows EXCEPT ![slot[s].model_id].storage_status =
                     IF status # slot[s].model.storage_status THEN status ELSE @,
                 ![slot[s].model_id].description =
                     IF description # slot[s].model.description THEN description ELSE @,
                 ![slot[s].model_id].alias = NoAlias]

\* the ORM flush: an UPDATE of the attributes that differ from the loaded row
orm_flush(s, status, description) ==
    [rows EXCEPT ![slot[s].model_id].storage_status =
                     IF status # slot[s].model.storage_status THEN status ELSE @,
                 ![slot[s].model_id].description =
                     IF description # slot[s].model.description THEN description ELSE @]

\* update_object_data: the reset to NOT_STORED, commit, add_task
DataCommit(s) ==
    /\ slot[s].pc = "u_commit"
    /\ Runnable(s)
    /\ IF slot[s].model.storage_status # NOT_STORED
          /\ slot[s].model_id \notin TableIds(slot[s].file_type)
       THEN /\ slot' = [slot EXCEPT ![s] = Rejected(slot[s], "StaleDataError")]
            /\ rows' = rows
       ELSE /\ rows' = IF slot[s].model.storage_status # NOT_STORED
                       THEN orm_flush(s, NOT_STORED, slot[s].model.description)
                       ELSE rows
            /\ slot' = [slot EXCEPT ![s].pc = "t_storing", ![s].response = "ok",
                           ![s].scheduled = TRUE,
                           ![s].reference = IF slot[s].reference # None
                                            THEN slot[s].reference
                                            ELSE slot[s].model.reference]
    /\ UNCHANGED <<catalog, scenario, nextId, disk, lock, faults>>

\* update_object_metadata up to its duplicate check
meta_check(r, model) ==
    IF model = NoRow THEN "ResourceNotFoundApiError"
    ELSE IF \/ (r.reference = None /\ r.description = None)
            \/ (r.reference = model.reference /\ r.description = model.description)
         THEN "skip"
    ELSE IF r.reference # None /\ r.reference # model.reference
         THEN IF model.storage_status # STORED THEN "InvalidStorable"
              ELSE IF ~validate_kicad_reference_change(r.file_type, r.cad_type)
                   THEN "ApiError"
              ELSE "rename"
    ELSE "ok"

\* update_object_metadata: db.get and the checks before the first query
MetaGet(s) ==
    \E w \in Workers, r \in Requests.meta :
        /\ CanStart(s, w)
        /\ LET model == db_get(r.file_type, r.model_id)
               base == [IdleSlot EXCEPT !.op = "meta", !.worker = w,
                          !.model_id = r.model_id, !.file_type = r.file_type,
                          !.req_cad_type = r.cad_type,
                          !.reference = r.reference, !.description = r.description,
                          !.model = model, !.path = model.path,
                          !.cad_type = model.cad_type]
           IN slot' = [slot EXCEPT ![s] =
                  CASE meta_check(r, model) = "rename" -> [base EXCEPT !.pc = "m_dupcheck"]
                    [] meta_check(r, model) = "ok" -> [base EXCEPT !.pc = "m_commit"]
                    [] meta_check(r, model) = "skip" ->
                          [base EXCEPT !.pc = "done", !.response = "ok"]
                    [] OTHER -> Rejected(base, meta_check(r, model))]
        /\ UNCHANGED <<catalog, scenario, rows, nextId, disk, lock, faults>>

\* a rename check that parses the stored file without looking for the name
meta_rename_check_parse_only(s) ==
    IF ~validate_storable_not_exists(slot[s].path, slot[s].reference,
            slot[s].file_type, slot[s].cad_type, slot[s].model_id)
    THEN "ResourceAlreadyExistsApiError"
    ELSE IF ~LibraryParses(StoredFile(slot[s].req_cad_type, slot[s].file_type,
                               slot[s].path), slot[s].file_type)
         THEN "InvalidStorable"
    ELSE "ok"

\* update_object_metadata: the duplicate check, then the stored file is parsed
\* with the cad_type of the request and must hold the new reference
meta_rename_check(s) ==
    IF ~validate_storable_not_exists(slot[s].path, slot[s].reference,
            slot[s].file_type, slot[s].cad_type, slot[s].model_id)
    THEN "ResourceAlreadyExistsApiError"
    ELSE IF ~LibraryParses(StoredFile(slot[s].req_cad_type, slot[s].file_type,
                               slot[s].path), slot[s].file_type)
         THEN "InvalidStorable"
    ELSE IF ~is_present(StoredFile(slot[s].req_cad_type, slot[s].file_type,
                            slot[s].path), slot[s].reference)
         THEN "InvalidStorable"
    ELSE "ok"

MetaDupCheck(s) ==
    /\ slot[s].pc = "m_dupcheck"
    /\ Runnable(s)
    /\ slot' = [slot EXCEPT ![s] =
          IF meta_rename_check(s) = "ok" THEN [slot[s] EXCEPT !.pc = "m_commit"]
          ELSE Rejected(slot[s], meta_rename_check(s))]
    /\ UNCHANGED <<catalog, scenario, rows, nextId, disk, lock, faults>>

\* update_object_metadata: a rename resets the status
MetaRenames(s) ==
    slot[s].reference # None /\ slot[s].reference # slot[s].model.reference

MetaStatus(s) == IF MetaRenames(s) THEN NOT_STORED ELSE slot[s].model.storage_status

MetaDescription(s) ==
    IF slot[s].description # None THEN slot[s].description
    ELSE slot[s].model.description

\* update_object_metadata: commit, and add_task when the reference of the
\* request differs from the reference of the model
MetaCommit(s) ==
    /\ slot[s].pc = "m_commit"
    /\ Runnable(s)
    /\ IF slot[s].model_id \notin TableIds(slot[s].file_type)
       THEN /\ slot' = [slot EXCEPT ![s] = Rejected(slot[s], "StaleDataError")]
            /\ rows' = rows
       ELSE /\ rows' = orm_flush(s, MetaStatus(s), MetaDescription(s))
            /\ slot' = [slot EXCEPT ![s].response = "ok",
                           ![s].pc = IF slot[s].reference # slot[s].model.reference
                                     THEN "t_storing" ELSE "done",
                           ![s].scheduled = slot[s].reference # slot[s].model.reference]
    /\ UNCHANGED <<catalog, scenario, nextId, disk, lock, faults>>

\* delete_object: db.get, add_task when the model exists
DeleteGet(s) ==
    \E w \in Workers, r \in Requests.delete :
        /\ CanStart(s, w)
        /\ LET model == db_get(r.file_type, r.model_id)
               base == [IdleSlot EXCEPT !.op = "delete", !.worker = w,
                          !.model_id = r.model_id, !.file_type = r.file_type,
                          !.model = model, !.path = model.path,
                          !.cad_type = model.cad_type, !.response = "ok"]
           IN slot' = [slot EXCEPT ![s] =
                  IF model # NoRow
                  THEN [base EXCEPT !.pc = "d_deleting", !.scheduled = TRUE]
                  ELSE [base EXCEPT !.pc = "done"]]
        /\ UNCHANGED <<catalog, scenario, rows, nextId, disk, lock, faults>>

\* ---------------------------------------------------- the component service
Component(mpn, manufacturer) == [mpn |-> mpn, manufacturer |-> manufacturer]

InventoryItem(mpn, manufacturer, component_id) ==
    [mpn |-> mpn, manufacturer |-> manufacturer, component_id |-> component_id]

\* a component with its inventory item, and an item created standalone
InitComponents == 1 :> Component("R1", "acme")

InitInventoryItems ==
    (1 :> InventoryItem("X9", "acme", 0)) @@ (2 :> InventoryItem("R1", "acme", 1))

IdleCall ==
    [pc |-> "idle", op |-> None, mpn |-> None, manufacturer |-> None,
     component_id |-> 0, footprint_ids |-> <<>>, existing |-> {},
     to_add |-> <<>>, checked |-> 0, response |-> None, error_id |-> 0,
     result |-> <<>>, category_id |-> 0, parent_id |-> 0, loaded_parent |-> 0,
     movements |-> <<>>, loaded |-> <<>>, entries |-> <<>>]

\* inventory_category: NumCategories root categories (parent_id NULL is 0)
InitCategories == [k \in 1..NumCategories |-> 0]

\* inventory_item_location_stock: item 1 at location 1 and at location 2
InitStocks ==
    (1 :> [item_id |-> 1, location_id |-> 1, actual_stock |-> 2,
           stock_min_level |-> 0])
    @@ (2 :> [item_id |-> 1, location_id |-> 2, actual_stock |-> 1,
              stock_min_level |-> 1])

InitCatalog ==
    /\ components = InitComponents
    /\ inventory_items = InitInventoryItems
    /\ component_footprint_asc = EmptyBag
    /\ nextComponentId = 2
    /\ nextItemId = 3
    /\ category_parent = InitCategories
    /\ stocks = InitStocks
    /\ stock_movements = <<>>
    /\ call = [c \in Calls |-> IdleCall]

\* the calls the clients make
ComponentRequests == {Component(mpn, "acme") : mpn \in {"R1", "R2", "X9"}}

RelationRequests ==
    {[component_id |-> 1, footprint_ids |-> ids] :
        ids \in {<<3>>, <<3, 4>>, <<4, 7>>, <<3, 3>>}}
    \cup {[component_id |-> 9, footprint_ids |-> <<3>>]}

DeleteRelationRequests == {[component_id |-> 1, footprint_id |-> 3]}

\* calls start in the order of their numbers
CanCall(c) ==
    /\ call[c].pc = "idle"
    /\ \A d \in Calls : d < c => call[d].pc # "idle"

\* the handler raised
Failed(base, error, id) ==
    [base EXCEPT !.pc = "done", !.response = error, !.error_id = id]

RECURSIVE Sorted(_)
\* sorted(): the ids of a set in increasing order
Sorted(ids) ==
    IF ids = {} THEN <<>>
    ELSE LET least == CHOOSE i \in ids : \A j \in ids : i <= j
         IN <<least>> \o Sorted(ids \ {least})

\* list(dict.fromkeys(...)): the members of a list
Members(list) == {list[i] : i \in DOMAIN list}

\* a select that looks the pair up in inventory_item instead of component
component_exists_id_of_item(mpn, manufacturer) ==
    LET ids == {i \in DOMAIN inventory_items :
                   /\ inventory_items[i].mpn = mpn
                   /\ inventory_items[i].manufacturer = manufacturer}
    IN IF ids = {} THEN 0 ELSE CHOOSE i \in ids : \A j \in ids : i <= j

\* create_component: select(ComponentModel.id).filter_by(mpn, manufacturer)
\* .limit(1), first(); the unique constraint leaves one row at most; 0 is None
component_exists_id(mpn, manufacturer) ==
    LET ids == {i \in DOMAIN components :
                   /\ components[i].mpn = mpn
                   /\ components[i].manufacturer = manufacturer}
    IN IF ids = {} THEN 0 ELSE CHOOSE i \in ids : \A j \in ids : i <= j

\* create_item_for_component: select(InventoryItemModel.id).filter_by(mpn,
\* manufacturer).limit(1), first()
item_exists_id(mpn, manufacturer) ==
    LET ids == {i \in DOMAIN inventory_items :
                   /\ inventory_items[i].mpn = mpn
                   /\ inventory_items[i].manufacturer = manufacturer}
    IN IF ids = {} THEN 0 ELSE CHOOSE i \in ids : \A j \in ids : i <= j

\* create_component: the select of the existing component
CreateComponentExists(c) ==
    \E r \in ComponentRequests :
        /\ CanCall(c)
        /\ LET base == [IdleCall EXCEPT !.op = "create_component",
                          !.mpn = r.mpn, !.manufacturer = r.manufacturer]
               exists_id == component_exists_id(r.mpn, r.manufacturer)
           IN call' = [call EXCEPT ![c] =
                  IF exists_id # 0
                  THEN Failed(base, "ResourceAlreadyExistsApiError", exists_id)
                  ELSE [base EXCEPT !.pc = "c_item"]]
        /\ UNCHANGED <<components, inventory_items, component_footprint_asc,
                       nextComponentId, nextItemId, inventory>>
        /\ UNCHANGED <<rows, nextId, disk, lock, slot, faults, scenario>>

\* create_component: db.add(model), then create_item_for_component's select of
\* the existing item, which flushes the component first (a row another call
\* committed meanwhile breaks _mpn_manufacturer_uc: rollback and re-raise)
CreateItemExists(c) ==
    /\ call[c].pc = "c_item"
    /\ LET exists_id == item_exists_id(call[c].mpn, call[c].manufacturer)
       IN call' = [call EXCEPT ![c] =
              IF component_exists_id(call[c].mpn, call[c].manufacturer) # 0
              THEN Failed(call[c], "IntegrityError", 0)
              ELSE IF exists_id # 0
              THEN Failed(call[c], "ResourceAlreadyExistsApiError", exists_id)
              ELSE [call[c] EXCEPT !.pc = "c_commit"]]
    /\ UNCHANGED <<components, inventory_items, component_footprint_asc,
                   nextComponentId, nextItemId, inventory>>
    /\ UNCHANGED <<rows, nextId, disk, lock, slot, faults, scenario>>

\* create_component: generate_item_id, db.add(item_model), db.commit(); the
\* unique constraints of component and inventory_item refuse a second row
CreateComponentCommit(c) ==
    /\ call[c].pc = "c_commit"
    /\ IF \/ component_exists_id(call[c].mpn, call[c].manufacturer) # 0
          \/ item_exists_id(call[c].mpn, call[c].manufacturer) # 0
       THEN /\ call' = [call EXCEPT ![c] = Failed(call[c], "IntegrityError", 0)]
            /\ UNCHANGED <<components, inventory_items, nextComponentId, nextItemId>>
       ELSE /\ components' = components @@
                  (nextComponentId :> Component(call[c].mpn, call[c].manufacturer))
            /\ inventory_items' = inventory_items @@
                  (nextItemId :> InventoryItem(call[c].mpn, call[c].manufacturer,
                                               nextComponentId))
            /\ nextComponentId' = nextComponentId + 1
            /\ nextItemId' = nextItemId + 1
            /\ call' = [call EXCEPT ![c].pc = "done", ![c].response = "ok",
                                    ![c].component_id = nextComponentId]
    /\ UNCHANGED <<component_footprint_asc, inventory>>
    /\ UNCHANGED <<rows, nextId, disk, lock, slot, faults, scenario>>

\* the footprints the rows of component_footprint_asc relate to the component
existing_footprints_ids(component_id) ==
    {p[2] : p \in {q \in BagToSet(component_footprint_asc) : q[1] = component_id}}

\* footprints_to_add: the requested ids that are not related yet, as listed
footprints_to_add(footprint_ids, existing) ==
    SelectSeq(footprint_ids, LAMBDA f : f \notin existing)

\* create_footprints_relation: db.get(ComponentModel, component_id)
RelationGet(c) ==
    \E r \in RelationRequests :
        /\ CanCall(c)
        /\ LET base == [IdleCall EXCEPT !.op = "create_footprints_relation",
                          !.component_id = r.component_id,
                          !.footprint_ids = r.footprint_ids]
           IN call' = [call EXCEPT ![c] =
                  IF r.component_id \notin DOMAIN components
                  THEN Failed(base, "ResourceNotFoundApiError", r.component_id)
                  ELSE [base EXCEPT !.pc = "f_existing"]]
        /\ UNCHANGED <<components, inventory_items, component_footprint_asc,
                       nextComponentId, nextItemId, inventory>>
        /\ UNCHANGED <<rows, nextId, disk, lock, slot, faults, scenario>>

\* create_footprints_relation: the select of the related ids, footprints_to_add
\* and the early return of sorted(existing_footprints_ids)
RelationExisting(c) ==
    /\ call[c].pc = "f_existing"
    /\ LET existing == existing_footprints_ids(call[c].component_id)
           to_add == footprints_to_add(call[c].footprint_ids, existing)
       IN call' = [call EXCEPT ![c] =
              IF to_add = <<>>
              THEN [call[c] EXCEPT !.pc = "done", !.response = "ok",
                                   !.existing = existing,
                                   !.result = Sorted(existing)]
              ELSE [call[c] EXCEPT !.pc = "f_refs", !.existing = existing,
                                   !.to_add = to_add]]
    /\ UNCHANGED <<components, inventory_items, component_footprint_asc,
                   nextComponentId, nextItemId, inventory>>
    /\ UNCHANGED <<rows, nextId, disk, lock, slot, faults, scenario>>

\* a lookup that finds every footprint
footprint_found_always(footprint_id) == TRUE

\* create_footprints_relation: db.get(FootprintReference, footprint_id) is not None
footprint_found(footprint_id) == db_get(FOOTPRINT, footprint_id) # NoRow

\* create_footprints_relation: db.get(FootprintReference, footprint_id) for the
\* next id of footprints_to_add
RelationGetRef(c) ==
    /\ call[c].pc = "f_refs"
    /\ LET footprint_id == call[c].to_add[call[c].checked + 1]
       IN call' = [call EXCEPT ![c] =
              IF ~footprint_found(footprint_id)
              THEN Failed(call[c], "ResourceNotFoundApiError", footprint_id)
              ELSE [call[c] EXCEPT !.checked = @ + 1,
                       !.pc = IF call[c].checked + 1 = Len(call[c].to_add)
                              THEN "f_insert" ELSE "f_refs"]]
    /\ UNCHANGED <<components, inventory_items, component_footprint_asc,
                   nextComponentId, nextItemId, inventory>>
    /\ UNCHANGED <<rows, nextId, disk, lock, slot, faults, scenario>>

RECURSIVE insert_rows(_, _, _)
\* insert(component_footprint_asc_table) with one row for each listed id
insert_rows(table, component_id, ids) ==
    IF ids = <<>> THEN table
    ELSE insert_rows(table (+) SetToBag({<<component_id, Head(ids)>>}),
                     component_id, Tail(ids))

\* create_footprints_relation: the insert, the commit and the sorted result
RelationInsert(c) ==
    /\ call[c].pc = "f_insert"
    /\ component_footprint_asc' =
          insert_rows(component_footprint_asc, call[c].component_id, call[c].to_add)
    /\ call' = [call EXCEPT ![c].pc = "done", ![c].response = "ok",
          ![c].result = Sorted(call[c].existing \cup Members(call[c].to_add))]
    /\ UNCHANGED <<components, inventory_items, nextComponentId, nextItemId, inventory>>
    /\ UNCHANGED <<rows, nextId, disk, lock, slot, faults, scenario>>

\* delete_component_footprint_relation: delete of the rows of the pair, commit
DeleteRelation(c) ==
    \E r \in DeleteRelationRequests :
        /\ CanCall(c)
        /\ component_footprint_asc' =
              [p \in DOMAIN component_footprint_asc
                     \ {<<r.component_id, r.footprint_id>>}
                 |-> component_footprint_asc[p]]
        /\ call' = [call EXCEPT ![c] =
              [IdleCall EXCEPT !.op = "delete_component_footprint_relation",
                 !.pc = "done", !.response = "ok",
                 !.component_id = r.component_id,
                 !.footprint_ids = <<r.footprint_id>>]]
        /\ UNCHANGED <<components, inventory_items, nextComponentId, nextItemId, inventory>>
        /\ UNCHANGED <<rows, nextId, disk, lock, slot, faults, scenario>>

\* ------------------------------------------------------- the specification
Init ==
    /\ rows = InitRows
    /\ nextId = 4
    /\ disk = InitDisk
    /\ lock = <<>>
    /\ slot = [s \in Slots |-> IdleSlot]
    /\ faults = 0
    /\ scenario = "everything"
    /\ InitCatalog

Next ==
    \E s \in Slots :
        \/ CreateCheck(s)
        \/ CreateInsert(s)
        \/ ReuseCheck(s)
        \/ ReuseDupCheck(s)
        \/ DataGet(s)
        \/ DataDupCheck(s)
        \/ DataCommit(s)
        \/ MetaGet(s)
        \/ MetaDupCheck(s)
        \/ MetaCommit(s)
        \/ DeleteGet(s)
        \/ TaskSetStoring(s)
        \/ TaskSetDeleting(s)
        \/ Acquire(s)
        \/ AcquireAfterWait(s)
        \/ LockTimeout(s)
        \/ TaskValidate(s)
        \/ TaskReadRef(s)
        \/ TaskDupCheck(s)
        \/ TaskUpdateRef(s)
        \/ TaskCopy(s)
        \/ TaskCopyFault(s)
        \/ TaskSetStored(s)
        \/ TaskSetFailed(s)
        \/ TaskDbError(s)
        \/ TaskSetStateError(s)
        \/ TaskDeleteRefs(s)
        \/ TaskDeleteRow(s)

Spec == Init /\ [][Next]_vars

\* Uploads only: MaxSlots create requests and their store tasks, no failure
\* injected.
InitUploads ==
    /\ rows = InitRows
    /\ nextId = 4
    /\ disk = InitDisk
    /\ lock = <<>>
    /\ slot = [s \in Slots |-> IdleSlot]
    /\ faults = 0
    /\ scenario = "uploads"
    /\ InitCatalog

NextUploads ==
    \E s \in Slots :
        \/ CreateCheck(s)
        \/ CreateInsert(s)
        \/ TaskSetStoring(s)
        \/ Acquire(s)
        \/ AcquireAfterWait(s)
        \/ LockTimeout(s)
        \/ TaskValidate(s)
        \/ TaskReadRef(s)
        \/ TaskCopy(s)
        \/ TaskSetStored(s)

SpecUploads == InitUploads /\ [][NextUploads]_vars

\* The stored symbol library only: update_data requests with new bytes, the
\* deletion of a sibling record and their tasks, no failure injected.
InitLibrary ==
    /\ rows = InitRows
    /\ nextId = 4
    /\ disk = InitDisk
    /\ lock = <<>>
    /\ slot = [s \in Slots |-> IdleSlot]
    /\ faults = 0
    /\ scenario = "library"
    /\ InitCatalog

NextLibrary ==
    \E s \in Slots :
        \/ DataGet(s)
        \/ DataCommit(s)
        \/ DeleteGet(s)
        \/ TaskSetStoring(s)
        \/ TaskSetDeleting(s)
        \/ Acquire(s)
        \/ AcquireAfterWait(s)
        \/ LockTimeout(s)
        \/ TaskValidate(s)
        \/ TaskReadRef(s)
        \/ TaskCopy(s)
        \/ TaskSetStored(s)
        \/ TaskSetFailed(s)
        \/ TaskDeleteRefs(s)
        \/ TaskDeleteRow(s)

SpecLibrary == InitLibrary /\ [][NextLibrary]_vars

\* update_data requests on record 1 only, with the stored bytes and with new
\* ones, and their tasks, no failure injected.
InitRepeated ==
    /\ rows = InitRows
    /\ nextId = 4
    /\ disk = InitDisk
    /\ lock = <<>>
    /\ slot = [s \in Slots |-> IdleSlot]
    /\ faults = 0
    /\ scenario = "repeated"
    /\ InitCatalog

NextRepeated ==
    \E s \in Slots :
        \/ DataGet(s)
        \/ DataDupCheck(s)
        \/ DataCommit(s)
        \/ TaskSetStoring(s)
        \/ Acquire(s)
        \/ AcquireAfterWait(s)
        \/ LockTimeout(s)
        \/ TaskValidate(s)
        \/ TaskReadRef(s)
        \/ TaskCopy(s)
        \/ TaskSetStored(s)

SpecRepeated == InitRepeated /\ [][NextRepeated]_vars

\* The KiCad footprint record only: update_metadata and delete requests and
\* their tasks, no failure injected.
InitFootprints ==
    /\ rows = InitRows
    /\ nextId = 4
    /\ disk = InitDisk
    /\ lock = <<>>
    /\ slot = [s \in Slots |-> IdleSlot]
    /\ faults = 0
    /\ scenario = "footprints"
    /\ InitCatalog

NextFootprints ==
    \E s \in Slots :
        \/ MetaGet(s)
        \/ MetaDupCheck(s)
        \/ MetaCommit(s)
        \/ DeleteGet(s)
        \/ TaskSetStoring(s)
        \/ TaskSetDeleting(s)
        \/ Acquire(s)
        \/ AcquireAfterWait(s)
        \/ LockTimeout(s)
        \/ TaskValidate(s)
        \/ TaskReadRef(s)
        \/ TaskDupCheck(s)
        \/ TaskUpdateRef(s)
        \/ TaskSetFailed(s)
        \/ TaskDeleteRefs(s)
        \/ TaskDeleteRow(s)

SpecFootprints == InitFootprints /\ [][NextFootprints]_vars

\* The stored symbol library only: update_metadata requests that rename its
\* records and their tasks, no failure injected.
InitRenames ==
    /\ rows = InitRows
    /\ nextId = 4
    /\ disk = InitDisk
    /\ lock = <<>>
    /\ slot = [s \in Slots |-> IdleSlot]
    /\ faults = 0
    /\ scenario = "renames"
    /\ InitCatalog

NextRenames ==
    \E s \in Slots :
        \/ MetaGet(s)
        \/ MetaDupCheck(s)
        \/ MetaCommit(s)
        \/ TaskSetStoring(s)
        \/ Acquire(s)
        \/ AcquireAfterWait(s)
        \/ LockTimeout(s)
        \/ TaskValidate(s)
        \/ TaskReadRef(s)
        \/ TaskDupCheck(s)
        \/ TaskUpdateRef(s)
        \/ TaskSetStored(s)
        \/ TaskSetFailed(s)

SpecRenames == InitRenames /\ [][NextRenames]_vars

\* Uploads without a reference and their store tasks, no failure injected.
InitAdoptions ==
    /\ rows = InitRows
    /\ nextId = 4
    /\ disk = InitDisk
    /\ lock = <<>>
    /\ slot = [s \in Slots |-> IdleSlot]
    /\ faults = 0
    /\ scenario = "adoptions"
    /\ InitCatalog

NextAdoptions ==
    \E s \in Slots :
        \/ CreateCheck(s)
        \/ CreateInsert(s)
        \/ TaskSetStoring(s)
        \/ Acquire(s)
        \/ AcquireAfterWait(s)
        \/ LockTimeout(s)
        \/ TaskValidate(s)
        \/ TaskReadRef(s)
        \/ TaskCopy(s)
        \/ TaskSetStored(s)

SpecAdoptions == InitAdoptions /\ [][NextAdoptions]_vars

\* The stored symbol library: create_from_existing, update_data and
\* update_metadata requests and their store tasks, no failure injected.
InitAliases ==
    /\ rows = InitRows
    /\ nextId = 4
    /\ disk = InitDisk
    /\ lock = <<>>
    /\ slot = [s \in Slots |-> IdleSlot]
    /\ faults = 0
    /\ scenario = "aliases"
    /\ InitCatalog

NextAliases ==
    \E s \in Slots :
        \/ ReuseCheck(s)
        \/ ReuseDupCheck(s)
        \/ CreateInsert(s)
        \/ DataGet(s)
        \/ DataCommit(s)
        \/ MetaGet(s)
        \/ MetaDupCheck(s)
        \/ MetaCommit(s)
        \/ TaskSetStoring(s)
        \/ Acquire(s)
        \/ AcquireAfterWait(s)
        \/ LockTimeout(s)
        \/ TaskValidate(s)
        \/ TaskReadRef(s)
        \/ TaskDupCheck(s)
        \/ TaskUpdateRef(s)
        \/ TaskCopy(s)
        \/ TaskSetStored(s)
        \/ TaskSetFailed(s)

SpecAliases == InitAliases /\ [][NextAliases]_vars

\* An upload and create_from_existing requests for its path, with their store
\* tasks, no failure injected.
InitReuses ==
    /\ rows = InitRows
    /\ nextId = 4
    /\ disk = InitDisk
    /\ lock = <<>>
    /\ slot = [s \in Slots |-> IdleSlot]
    /\ faults = 0
    /\ scenario = "reuses"
    /\ InitCatalog

NextReuses ==
    \E s \in Slots :
        \/ CreateCheck(s)
        \/ ReuseCheck(s)
        \/ ReuseDupCheck(s)
        \/ CreateInsert(s)
        \/ TaskSetStoring(s)
        \/ Acquire(s)
        \/ AcquireAfterWait(s)
        \/ LockTimeout(s)
        \/ TaskValidate(s)
        \/ TaskReadRef(s)
        \/ TaskCopy(s)
        \/ TaskSetStored(s)

SpecReuses == InitReuses /\ [][NextReuses]_vars

\* The component service: concurrent create_component calls.
CatalogRows == InitRows @@ (4 :> StoredRow(FpPathY, "B", KICAD, FOOTPRINT))

CatalogDisk ==
    InitDisk @@ (get_target_object_path(KICAD, FOOTPRINT, FpPathY) :> FpFileB)

InitComponentService ==
    /\ rows = CatalogRows
    /\ nextId = 5
    /\ disk = CatalogDisk
    /\ lock = <<>>
    /\ slot = [s \in Slots |-> IdleSlot]
    /\ faults = 0
    /\ scenario = "catalog"
    /\ InitCatalog

NextComponents ==
    \E c \in Calls :
        \/ CreateComponentExists(c)
        \/ CreateItemExists(c)
        \/ CreateComponentCommit(c)

SpecComponents == InitComponentService /\ [][NextComponents]_vars

\* The component service: concurrent calls that relate footprints to a
\* component and remove a relation.
NextRelations ==
    \E c \in Calls :
        \/ RelationGet(c)
        \/ RelationExisting(c)
        \/ RelationGetRef(c)
        \/ RelationInsert(c)
        \/ DeleteRelation(c)

SpecRelations == InitComponentService /\ [][NextRelations]_vars

\* Uploads of KiCad footprints to two directories, one inside the other, with
\* their store tasks, no failure injected.
InitDirectories ==
    /\ rows = InitRows
    /\ nextId = 4
    /\ disk = InitDisk
    /\ lock = <<>>
    /\ slot = [s \in Slots |-> IdleSlot]
    /\ faults = 0
    /\ scenario = "directories"
    /\ InitCatalog

NextDirectories ==
    \E s \in Slots :
        \/ CreateCheck(s)
        \/ CreateInsert(s)
        \/ TaskSetStoring(s)
        \/ Acquire(s)
        \/ AcquireAfterWait(s)
        \/ LockTimeout(s)
        \/ TaskValidate(s)
        \/ TaskReadRef(s)
        \/ TaskCopy(s)
        \/ TaskSetStored(s)

SpecDirectories == InitDirectories /\ [][NextDirectories]_vars

\* A rename, an update of the bytes and a delete on the records that share the
\* stored symbol library, with their tasks, no failure injected.
InitSharing ==
    /\ rows = InitRows
    /\ nextId = 4
    /\ disk = InitDisk
    /\ lock = <<>>
    /\ slot = [s \in Slots |-> IdleSlot]
    /\ faults = 0
    /\ scenario = "sharing"
    /\ InitCatalog

NextSharing ==
    \E s \in Slots :
        \/ DataGet(s)
        \/ DataCommit(s)
        \/ MetaGet(s)
        \/ MetaDupCheck(s)
        \/ MetaCommit(s)
        \/ DeleteGet(s)
        \/ TaskSetStoring(s)
        \/ TaskSetDeleting(s)
        \/ Acquire(s)
        \/ AcquireAfterWait(s)
        \/ LockTimeout(s)
        \/ TaskValidate(s)
        \/ TaskReadRef(s)
        \/ TaskDupCheck(s)
        \/ TaskUpdateRef(s)
        \/ TaskCopy(s)
        \/ TaskSetStored(s)
        \/ TaskSetFailed(s)
        \/ TaskDeleteRefs(s)
        \/ TaskDeleteRow(s)

SpecSharing == InitSharing /\ [][NextSharing]_vars

\* update_metadata requests with a description only, and what they schedule,
\* no failure injected.
InitDescriptions ==
    /\ rows = InitRows
    /\ nextId = 4
    /\ disk = InitDisk
    /\ lock = <<>>
    /\ slot = [s \in Slots |-> IdleSlot]
    /\ faults = 0
    /\ scenario = "descriptions"
    /\ InitCatalog

NextDescriptions ==
    \E s \in Slots :
        \/ MetaGet(s)
        \/ MetaCommit(s)
        \/ TaskSetStoring(s)
        \/ Acquire(s)
        \/ AcquireAfterWait(s)
        \/ LockTimeout(s)
        \/ TaskValidate(s)
        \/ TaskReadRef(s)
        \/ TaskDupCheck(s)
        \/ TaskUpdateRef(s)
        \/ TaskSetFailed(s)

SpecDescriptions == InitDescriptions /\ [][NextDescriptions]_vars

\* Requests that fail a request-time validation, next to an upload that is
\* accepted and stored, no failure injected.
InitRejections ==
    /\ rows = InitRows
    /\ nextId = 4
    /\ disk = InitDisk
    /\ lock = <<>>
    /\ slot = [s \in Slots |-> IdleSlot]
    /\ faults = 0
    /\ scenario = "rejections"
    /\ InitCatalog

NextRejections ==
    \E s \in Slots :
        \/ CreateCheck(s)
        \/ CreateInsert(s)
        \/ ReuseCheck(s)
        \/ DataGet(s)
        \/ DataDupCheck(s)
        \/ MetaGet(s)
        \/ MetaDupCheck(s)
        \/ TaskSetStoring(s)
        \/ Acquire(s)
        \/ AcquireAfterWait(s)
        \/ LockTimeout(s)
        \/ TaskValidate(s)
        \/ TaskReadRef(s)
        \/ TaskCopy(s)
        \/ TaskSetStored(s)

SpecRejections == InitRejections /\ [][NextRejections]_vars

\* ------------------------------------------------------------- the claims
\* the slot runs a background task
InTask(s) ==
    slot[s].pc \in {"t_storing", "d_deleting", "t_lock", "t_blocked", "t_validate",
                    "t_readref", "t_dupcheck", "t_updref", "t_copy", "t_stored",
                    "d_refs", "d_delete", "t_failed"}

\* the task of the slot is inside its `with __get_file_lock(...)` block
InLockedSection(s) ==
    slot[s].pc \in {"t_validate", "t_readref", "t_dupcheck", "t_updref", "t_copy",
                    "t_stored", "d_refs", "d_delete"}

Quiet == \A s \in Slots : slot[s].pc \in {"idle", "done"}

\* two create_from_upload requests for one path, with different references,
\* each uploading a library that holds both
ConcurrentCreates(s, t) ==
    /\ s # t
    /\ slot[s].op = "create" /\ slot[t].op = "create"
    /\ slot[s].path = slot[t].path /\ slot[s].cad_type = slot[t].cad_type
    /\ slot[s].file_type = slot[t].file_type
    /\ slot[s].reference # slot[t].reference
    /\ {slot[s].reference, slot[t].reference} \subseteq slot[s].filename.refs
    /\ {slot[s].reference, slot[t].reference} \subseteq slot[t].filename.refs

CreatedStored(s) ==
    /\ slot[s].response = "ok"
    /\ slot[s].model_id \in DOMAIN rows
    /\ rows[slot[s].model_id].storage_status = STORED
    /\ slot[s].reference \in
          StoredFile(slot[s].cad_type, slot[s].file_type, slot[s].path).refs

\* C1: two concurrent create_from_upload requests for the same path and
\* cad_type with different references, each uploading a file that holds both
\* references, both succeed, both records end STORED and the stored file holds
\* both references, whatever the interleaving (no failure is injected).
C1_BothCreatesStored ==
    \A s, t \in Slots :
        (ConcurrentCreates(s, t) /\ slot[s].pc = "done" /\ slot[t].pc = "done"
         /\ faults = 0)
        => (CreatedStored(s) /\ CreatedStored(t))

\* C2: at most one task is inside the locked section of a physical file
\* (cad_type, file_type, path), and a task is never kept waiting because of a
\* task whose (cad_type, file_type, path) differs from its own.
MutualExclusion ==
    \A s, t \in Slots :
        (s # t /\ InLockedSection(s) /\ InLockedSection(t))
        => get_file_lock(Task(s)) # get_file_lock(Task(t))

C2_SerializedPerFileOnly ==
    /\ MutualExclusion
    /\ \A s, t \in Slots :
          (s # t /\ InTask(s) /\ Blocked(t) /\ slot[t].worker = slot[s].worker)
          => get_file_lock(Task(s)) = get_file_lock(Task(t))

\* the store task of the slot carries new bytes for a resource that is not a
\* KiCad footprint
NewBytesTask(s) ==
    /\ HasFile(s)
    /\ ~(slot[s].cad_type = KICAD /\ slot[s].file_type = FOOTPRINT)

\* every reference stored at the path by another record, and the reference
\* being stored, is in the new bytes
ReferencesKept(s) ==
    \A reference \in get_stored_references_for_id(Task(s)) \cup {slot[s].reference} :
        reference \in slot[s].filename.refs

RecordOf(s) == slot[s].model_id \in TableIds(slot[s].file_type)

\* C3: a store task with new bytes (not a KiCad footprint) copies them over the
\* stored file only if every reference stored at the path by another record,
\* and the reference being stored, is in the new bytes; when the validation
\* under the lock finds one missing, the task leaves the file alone, goes to
\* the failure update, and that update leaves its record STORAGE_FAILED.
C3_OverwriteKeepsReferences ==
    [][\A s \in Slots : NewBytesTask(s) =>
          /\ (slot[s].pc = "t_copy" /\ slot'[s].pc = "t_stored") => ReferencesKept(s)
          /\ (slot[s].pc = "t_validate" /\ slot'[s].pc # "t_validate"
              /\ ~ReferencesKept(s))
             => (slot'[s].pc = "t_failed" /\ disk' = disk)
          /\ (slot[s].pc = "t_failed" /\ slot'[s].pc = "done" /\ RecordOf(s)
              /\ slot[s].error = "will remove an existing reference")
             => /\ rows'[slot[s].model_id].storage_status = STORAGE_FAILED
                /\ disk' = disk
      ]_vars

C3_Witness ==
    \E s, t \in Slots :
        /\ s # t
        /\ slot[s].op = "data" /\ slot[s].pc = "done" /\ slot[s].scheduled
        /\ slot[s].error = None
        /\ slot[s].filename # SymFile
        /\ StoredFile(slot[s].cad_type, slot[s].file_type, slot[s].path)
              = slot[s].filename
        /\ slot[t].op = "data" /\ slot[t].pc = "done"
        /\ slot[t].error = "will remove an existing reference"
        /\ RecordOf(t)
        /\ rows[slot[t].model_id].storage_status = STORAGE_FAILED
        /\ StoredFile(slot[t].cad_type, slot[t].file_type, slot[t].path)
              # slot[t].filename

\* another row of the table points at the path of the task, whatever its status
OtherRecordAtPath(s) ==
    \E i \in TableIds(slot[s].file_type) \ {slot[s].model_id} :
        rows[i].path = slot[s].path /\ rows[i].cad_type = slot[s].cad_type

\* C4: a delete task removes the stored file if and only if no other surviving
\* record, whatever its storage_status, has the same path and cad_type.
C4_FileRemovedIffLastRecord ==
    [][\A s \in Slots :
          (/\ slot[s].pc = "d_refs" /\ slot'[s].pc = "d_delete"
           /\ get_target_object_path(slot[s].cad_type, slot[s].file_type,
                  slot[s].path) \in DOMAIN disk)
          => ((get_target_object_path(slot[s].cad_type, slot[s].file_type,
                   slot[s].path) \notin DOMAIN disk')
              <=> ~OtherRecordAtPath(s))
      ]_vars

\* C5: when a background task has hit a data-layer or a validation error, the
\* error stays inside the task runner and the task's record ends with
\* storage_status STORAGE_FAILED and storage_error the message of the error.
C5_ErrorRecorded ==
    [][\A s \in Slots :
          (slot[s].pc = "t_failed" /\ slot'[s].pc = "done" /\ RecordOf(s))
          => /\ ~slot'[s].escaped
             /\ rows'[slot[s].model_id].storage_status = STORAGE_FAILED
             /\ rows'[slot[s].model_id].storage_error = slot[s].error
      ]_vars

\* C6: no record stays STORING: once every task has ended, however it ended,
\* each record a store task marked STORING is STORED or STORAGE_FAILED.
C6_NoRecordLeftStoring ==
    Quiet => \A i \in DOMAIN rows : rows[i].storage_status # STORING

StatusEdges ==
    {<<NOT_STORED, STORING>>, <<STORING, STORED>>, <<STORING, STORAGE_FAILED>>,
     <<STORED, DELETING>>}

\* the commit of an accepted update request on record i
UpdateCommits(i) ==
    \E s \in Slots :
        /\ slot[s].pc \in {"u_commit", "m_commit"}
        /\ slot'[s].pc # slot[s].pc
        /\ slot[s].model_id = i

\* C7: apart from the reset to NOT_STORED by an accepted update request, the
\* storage_status of a record changes only along NOT_STORED -> STORING,
\* STORING -> STORED, STORING -> STORAGE_FAILED and STORED -> DELETING.
C7_StatusEdges ==
    [][\A i \in DOMAIN rows \cap DOMAIN rows' :
          rows'[i].storage_status # rows[i].storage_status
          => \/ <<rows[i].storage_status, rows'[i].storage_status>> \in StatusEdges
             \/ (rows'[i].storage_status = NOT_STORED /\ UpdateCommits(i))
      ]_vars

\* C8: DELETING is terminal: a record marked DELETING keeps that status until
\* its row is removed.
C8_DeletingIsTerminal ==
    [][\A i \in DOMAIN rows \cap DOMAIN rows' :
          rows[i].storage_status = DELETING
          => rows'[i].storage_status = DELETING
      ]_vars

\* both rows are KiCad footprints
KicadFootprints(i, j) ==
    /\ rows[i].file_type = FOOTPRINT /\ rows[j].file_type = FOOTPRINT
    /\ rows[i].cad_type = KICAD /\ rows[j].cad_type = KICAD

\* C9: no two records of one file_type have the same (path, reference,
\* cad_type), and no two KiCad footprints have the same (parent directory of
\* path, reference).
C9_NoDuplicateRecords ==
    \A i, j \in DOMAIN rows :
        (i # j /\ rows[i].file_type = rows[j].file_type)
        => /\ ~(/\ rows[i].path = rows[j].path
                /\ rows[i].reference = rows[j].reference
                /\ rows[i].cad_type = rows[j].cad_type)
           /\ KicadFootprints(i, j)
              => ~(/\ Dirname(rows[i].path) = Dirname(rows[j].path)
                   /\ rows[i].reference = rows[j].reference)

\* the request q finds its record STORED and uploads the bytes stored for it,
\* with the reference omitted or unchanged
IdenticalUpload(q) ==
    /\ q.model_id \in TableIds(q.file_type)
    /\ rows[q.model_id].storage_status = STORED
    /\ (q.reference = None \/ q.reference = rows[q.model_id].reference)
    /\ get_target_object_path(rows[q.model_id].cad_type, q.file_type,
           rows[q.model_id].path) \in DOMAIN disk
    /\ disk[get_target_object_path(rows[q.model_id].cad_type, q.file_type,
           rows[q.model_id].path)] = q.filename

\* C10: update_data on a STORED record with the bytes of its stored file and
\* the reference omitted or unchanged changes no record and no file, answers
\* with the record and schedules no task.
C10_IdenticalUploadIsNoOp ==
    [][\A s \in Slots :
          (slot[s].pc = "idle" /\ slot'[s].op = "data" /\ IdenticalUpload(slot'[s]))
          => /\ rows' = rows
             /\ disk' = disk
             /\ slot'[s].pc = "done"
             /\ slot'[s].response = "ok"
             /\ ~slot'[s].scheduled
      ]_vars

C10_Witness ==
    \E s \in Slots :
        /\ slot[s].op = "data" /\ slot[s].pc = "done"
        /\ slot[s].response = "ok" /\ ~slot[s].scheduled
        /\ slot[s].model.storage_status = STORED
        /\ slot[s].filename = SymFileNew
        /\ RecordOf(s)
        /\ rows[slot[s].model_id] = slot[s].model

\* the request asks update_metadata for a new reference on a KiCad footprint
KicadFootprintRename(s) ==
    /\ slot[s].op = "meta"
    /\ slot[s].file_type = FOOTPRINT
    /\ slot[s].model.cad_type = KICAD
    /\ MetaRenames(s)

\* C11: update_metadata asking for a new reference on a KiCad footprint record
\* is refused with the unsupported-operation ApiError, whatever the cad_type of
\* the request and the storage_status of the record; it never reaches the
\* commit and schedules nothing.
C11_KicadFootprintRenameUnsupported ==
    \A s \in Slots :
        KicadFootprintRename(s)
        => /\ slot[s].pc = "done"
           /\ slot[s].response = "ApiError"
           /\ ~slot[s].scheduled

\* the duplicate check and the parse of the stored file of a rename run now,
\* and the file stored for the record does not hold the new reference
RenameToMissingPart(s) ==
    /\ slot[s].op = "meta"
    /\ slot[s].pc = "m_dupcheck"
    /\ slot'[s].pc # "m_dupcheck"
    /\ ~is_present(StoredFile(slot[s].cad_type, slot[s].file_type, slot[s].path),
                   slot[s].reference)

\* C12: update_metadata that renames a STORED record to a name the file stored
\* for it does not hold is refused with the invalid-library error of
\* __get_error_for_type (with the already-exists error when another record of
\* the path has the name), changes no record and schedules no task.
C12_RenameToMissingPartRefused ==
    [][\A s \in Slots :
          RenameToMissingPart(s)
          => /\ rows' = rows
             /\ slot'[s].pc = "done"
             /\ ~slot'[s].scheduled
             /\ slot'[s].response
                   \in {"InvalidStorable", "ResourceAlreadyExistsApiError"}
             /\ validate_storable_not_exists(slot[s].path, slot[s].reference,
                    slot[s].file_type, slot[s].cad_type, slot[s].model_id)
                => slot'[s].response = "InvalidStorable"
      ]_vars

C12_Witness ==
    \E s \in Slots :
        /\ slot[s].op = "meta" /\ slot[s].pc = "done"
        /\ slot[s].reference = "D"
        /\ slot[s].req_cad_type = slot[s].cad_type
        /\ slot[s].response = "InvalidStorable"
        /\ ~slot[s].scheduled
        /\ RecordOf(s)
        /\ rows[slot[s].model_id] = slot[s].model
        /\ slot[s].model.storage_status = STORED

\* the create request of the slot came without a reference
CreateWithoutReference(q) == q.op = "create" /\ q.req_reference = None

\* path and library type of the upload are accepted and no record has the part
AdoptionAccepted(q) ==
    /\ ValidInputPath(q.path, q.cad_type, q.file_type)
    /\ q.filename.kind = q.file_type
    /\ \A name \in q.filename.refs :
          validate_storable_not_exists(q.path, name, q.file_type, q.cad_type, 0)

\* C13: create_from_upload without a reference goes on to insert a record
\* named after the only part when the library has exactly one part (and path,
\* type and duplicate checks pass), and the record it inserts has that name;
\* with no part or with several parts the request is refused, no record is
\* inserted and nothing is scheduled.
C13_SinglePartAdopted ==
    [][\A s \in Slots :
          /\ (slot[s].pc = "idle" /\ CreateWithoutReference(slot'[s]))
             => /\ rows' = rows
                /\ count(slot'[s].filename) # 1
                   => /\ slot'[s].pc = "done"
                      /\ slot'[s].response \in {"InvalidStorable", "ApiError"}
                      /\ slot'[s].model_id = 0
                      /\ ~slot'[s].scheduled
                /\ (count(slot'[s].filename) = 1 /\ AdoptionAccepted(slot'[s]))
                   => /\ slot'[s].pc = "c_insert"
                      /\ slot'[s].filename.refs = {slot'[s].reference}
          /\ (slot[s].pc = "c_insert" /\ slot'[s].pc # "c_insert"
              /\ CreateWithoutReference(slot[s]))
             => /\ slot'[s].response = "ok"
                /\ DOMAIN rows' = DOMAIN rows \cup {slot'[s].model_id}
                /\ slot'[s].model_id \notin DOMAIN rows
                /\ slot[s].filename.refs = {rows'[slot'[s].model_id].reference}
      ]_vars

C13_Witness ==
    \E s, t \in Slots :
        /\ CreateWithoutReference(slot[s])
        /\ slot[s].filename = SchFileOne
        /\ RecordOf(s)
        /\ rows[slot[s].model_id].reference = "A"
        /\ rows[slot[s].model_id].path = SchPath
        /\ CreateWithoutReference(slot[t])
        /\ count(slot[t].filename) = 2
        /\ slot[t].pc = "done" /\ slot[t].response = "InvalidStorable"
        /\ slot[t].model_id = 0

\* base_dir/cad_type/(footprints|symbols)/path of the record of the slot
ExpectedLocation(s) ==
    <<MODELS_BASE_DIR,
      <<slot[s].cad_type,
        IF slot[s].file_type = FOOTPRINT THEN "footprints" ELSE "symbols">>,
      slot[s].path>>

\* C14: the insert of an accepted create_from_upload commits a new record with
\* storage_status NOT_STORED, answers with the record in that status and only
\* then enqueues the store task; when that task ends without error its record
\* is STORED and the file is at base_dir/cad_type/(footprints|symbols)/path.
C14_CreatedNotStoredThenStored ==
    [][\A s \in Slots : slot[s].op = "create" =>
          /\ (slot[s].pc = "c_insert" /\ slot'[s].pc # "c_insert")
             => /\ ~slot[s].scheduled
                /\ slot'[s].model_id \notin DOMAIN rows
                /\ slot'[s].model_id \in DOMAIN rows'
                /\ rows'[slot'[s].model_id].storage_status = NOT_STORED
                /\ slot'[s].model = rows'[slot'[s].model_id]
                /\ slot'[s].response = "ok"
                /\ slot'[s].scheduled /\ slot'[s].pc = "t_storing"
          /\ (slot[s].pc = "t_stored" /\ slot'[s].pc = "done"
              /\ slot'[s].error = None /\ ~slot'[s].escaped /\ RecordOf(s))
             => /\ rows'[slot[s].model_id].storage_status = STORED
                /\ ExpectedLocation(s) \in DOMAIN disk'
                /\ disk'[ExpectedLocation(s)] = slot[s].filename
      ]_vars

C14_Witness ==
    \E s \in Slots :
        /\ slot[s].op = "create" /\ slot[s].pc = "done"
        /\ slot[s].error = None /\ ~slot[s].escaped
        /\ slot[s].file_type = FOOTPRINT
        /\ slot[s].model.storage_status = NOT_STORED
        /\ RecordOf(s)
        /\ rows[slot[s].model_id].storage_status = STORED
        /\ ExpectedLocation(s) \in DOMAIN disk
        /\ disk[ExpectedLocation(s)] = slot[s].filename

\* the records of the table of file_type at path and cad_type
RecordsAtPath(path, cad_type, file_type) ==
    {i \in TableIds(file_type) : rows[i].path = path /\ rows[i].cad_type = cad_type}

\* C15: no step changes the alias of a record that stays in the table;
\* create_from_existing takes the alias of a record it finds at the path and
\* inserts its record with that alias.
C15_AliasStable ==
    [][/\ \A i \in DOMAIN rows \cap DOMAIN rows' : rows'[i].alias = rows[i].alias
       /\ \A s \in Slots :
             /\ (slot[s].pc = "idle" /\ slot'[s].pc = "r_dupcheck")
                => \E i \in RecordsAtPath(slot'[s].path, slot'[s].cad_type,
                                          slot'[s].file_type) :
                       slot'[s].alias = rows[i].alias
             /\ (slot[s].pc = "r_insert" /\ slot'[s].pc # "r_insert")
                => /\ slot'[s].model_id \in DOMAIN rows' \ DOMAIN rows
                   /\ rows'[slot'[s].model_id].alias = slot[s].alias
      ]_vars

C15_Witness ==
    \E s, t \in Slots :
        /\ slot[s].op = "reuse" /\ slot[s].pc = "done" /\ RecordOf(s)
        /\ rows[slot[s].model_id].alias = rows[1].alias
        /\ rows[1].alias # NoAlias
        /\ rows[slot[s].model_id].storage_status = STORED
        /\ slot[t].op \in {"data", "meta"} /\ slot[t].pc = "done"
        /\ slot[t].scheduled /\ slot[t].error = None
        /\ rows[slot[t].model_id].alias = slot[t].model.alias
        /\ rows[slot[t].model_id].storage_status = STORED

\* the four conditions of create_from_existing, as the request q finds them
ReuseAllowed(q) ==
    /\ ~(q.cad_type = KICAD /\ q.file_type = FOOTPRINT)
    /\ \E i \in RecordsAtPath(q.path, q.cad_type, q.file_type) :
          rows[i].storage_status = STORED
    /\ ~\E i \in RecordsAtPath(q.path, q.cad_type, q.file_type) :
          rows[i].reference = q.reference
    /\ <<MODELS_BASE_DIR, storable_base_dirs(q.cad_type, q.file_type), q.path>>
          \in DOMAIN disk
    /\ q.reference \in disk[<<MODELS_BASE_DIR,
                              storable_base_dirs(q.cad_type, q.file_type),
                              q.path>>].refs

\* C16: create_from_existing is refused with an error, inserts no record and
\* schedules no task when it finds the resource to be a KiCad footprint, no
\* STORED record at the path, a record of the path with the reference, or the
\* reference missing from the stored file; its second duplicate check refuses
\* it the same way; only a request that passed both inserts a record.
C16_ReuseConditions ==
    [][\A s \in Slots :
          /\ (slot[s].pc = "idle" /\ slot'[s].op = "reuse")
             => /\ rows' = rows
                /\ ~slot'[s].scheduled
                /\ ~ReuseAllowed(slot'[s])
                   => /\ slot'[s].pc = "done"
                      /\ slot'[s].response \in {"ApiError", "InvalidStorable"}
                      /\ slot'[s].model_id = 0
          /\ (slot[s].op = "reuse" /\ slot[s].pc = "r_dupcheck"
              /\ slot'[s].pc # "r_dupcheck")
             => /\ rows' = rows
                /\ ~slot'[s].scheduled
                /\ (\E i \in RecordsAtPath(slot[s].path, slot[s].cad_type,
                                            slot[s].file_type) :
                        rows[i].reference = slot[s].reference)
                   => /\ slot'[s].pc = "done"
                      /\ slot'[s].response = "ResourceAlreadyExistsApiError"
                      /\ slot'[s].model_id = 0
          /\ (slot[s].op = "reuse" /\ slot'[s].model_id # slot[s].model_id)
             => /\ slot[s].pc = "r_insert"
                /\ DOMAIN rows' = DOMAIN rows \cup {slot'[s].model_id}
      ]_vars

C16_Witness ==
    \E s, t \in Slots :
        /\ slot[s].op = "create" /\ RecordOf(s)
        /\ rows[slot[s].model_id].storage_status = STORED
        /\ slot[t].op = "reuse" /\ slot[t].reference = "B" /\ RecordOf(t)
        /\ slot[t].path = SchPath
        /\ rows[slot[t].model_id].storage_status = STORED

C16_WitnessRefused ==
    \E s, t \in Slots :
        /\ slot[s].op = "create" /\ RecordOf(s)
        /\ rows[slot[s].model_id].storage_status \in {NOT_STORED, STORING}
        /\ slot[t].op = "reuse" /\ slot[t].reference = "B"
        /\ slot[t].path = SchPath
        /\ slot[t].pc = "done" /\ slot[t].response = "ApiError"
        /\ slot[t].model_id = 0

\* C17: the failure of a task is recorded through a session of its own: also
\* when the error of the task body left the body's session unusable, the
\* record gets storage_status STORAGE_FAILED and the error as storage_error.
C17_FailureRecordedIndependently ==
    [][\A s \in Slots :
          (/\ slot[s].pc = "t_failed"
           /\ slot[s].error = "SQLAlchemyError"
           /\ ~slot[s].session_ok
           /\ slot'[s].pc = "done"
           /\ RecordOf(s))
          => /\ rows'[slot[s].model_id].storage_status = STORAGE_FAILED
             /\ rows'[slot[s].model_id].storage_error = "SQLAlchemyError"
      ]_vars

\* C18: no outcome of an upload request leaves its staged temp file behind:
\* once the request and the task it scheduled, if any, have ended, the temp
\* file has been deleted.
C18_NoStagedFileLeft ==
    \A s \in Slots :
        (slot[s].op \in {"create", "data"} /\ slot[s].pc = "done") => ~slot[s].tmp

\* C19: create_component for an (mpn, manufacturer) pair that a component
\* already has ends with ResourceAlreadyExistsApiError whose conflicting_id is
\* the id of that component, and adds neither a component nor an inventory item.
C19_ExistingComponentRefused ==
    [][\A c \in Calls :
          (call[c].pc = "idle" /\ call'[c].op = "create_component")
          => \A i \in DOMAIN components :
                 (/\ components[i].mpn = call'[c].mpn
                  /\ components[i].manufacturer = call'[c].manufacturer)
                 => /\ call'[c].pc = "done"
                    /\ call'[c].response = "ResourceAlreadyExistsApiError"
                    /\ call'[c].error_id = i
                    /\ components' = components
                    /\ inventory_items' = inventory_items
      ]_vars

C19_Witness ==
    \E c, d \in Calls :
        /\ call[c].op = "create_component" /\ call[c].response = "ok"
        /\ call[c].component_id \in DOMAIN components
        /\ call[d].op = "create_component" /\ call[d].pc = "done"
        /\ call[d].response = "ResourceAlreadyExistsApiError"
        /\ call[d].error_id = call[c].component_id
        /\ call[d].mpn = call[c].mpn
        /\ Cardinality(DOMAIN components) = 2
        /\ Cardinality(DOMAIN inventory_items) = 3

\* C20: when create_footprints_relation(component, ids) succeeds, the rows
\* that relate footprints to the component are the union of the ones it had
\* and the requested ids, each footprint once: a related footprint gets no
\* second row and a new one gets one row.
C20_RelationsAreTheUnion ==
    [][\A c \in Calls :
          (/\ call[c].op = "create_footprints_relation"
           /\ call[c].pc \in {"f_existing", "f_insert"}
           /\ call'[c].pc = "done" /\ call'[c].response = "ok")
          => LET k == call[c].component_id
                 before == existing_footprints_ids(k)
                 after == {p[2] : p \in {q \in BagToSet(component_footprint_asc') :
                                            q[1] = k}}
             IN /\ after = before \cup Members(call[c].footprint_ids)
                /\ \A f \in before :
                      CopiesIn(<<k, f>>, component_footprint_asc')
                         = CopiesIn(<<k, f>>, component_footprint_asc)
                /\ \A f \in after \ before :
                      CopiesIn(<<k, f>>, component_footprint_asc') = 1
      ]_vars

\* the call asks to relate a footprint that does not exist to a component that does
MissingFootprintRequested(q) ==
    /\ q.op = "create_footprints_relation"
    /\ q.component_id \in DOMAIN components
    /\ \E f \in Members(q.footprint_ids) : f \notin TableIds(FOOTPRINT)

\* C21: a create_footprints_relation call that names a footprint that does not
\* exist adds no relation at any of its steps, also not for the footprints that
\* exist, and ends with ResourceNotFoundApiError carrying a requested id that
\* does not exist.
C21_RelationAllOrNothing ==
    [][\A c \in Calls :
          (call'[c] # call[c] /\ MissingFootprintRequested(call'[c]))
          => /\ component_footprint_asc' = component_footprint_asc
             /\ call'[c].pc = "done"
                => /\ call'[c].response = "ResourceNotFoundApiError"
                   /\ call'[c].error_id \in Members(call'[c].footprint_ids)
                   /\ call'[c].error_id \notin TableIds(FOOTPRINT)
      ]_vars

C21_Witness ==
    \E c, d \in Calls :
        /\ call[c].footprint_ids = <<4, 7>> /\ call[c].pc = "done"
        /\ call[c].response = "ResourceNotFoundApiError" /\ call[c].error_id = 7
        /\ call[c].checked = 1
        /\ CopiesIn(<<1, 4>>, component_footprint_asc) = 0
        /\ call[d].footprint_ids = <<3>> /\ call[d].response = "ok"
        /\ CopiesIn(<<1, 3>>, component_footprint_asc) = 1

\* C22: waiting for a path lock suspends the waiting task only: while a task
\* waits, every other task and request that has a step to take, the holder of
\* the lock among them, can take it, and the wait ends with the waiter holding
\* the lock.
C22_LockWaitIsCooperative ==
    [][\A t \in Slots :
          Blocked(t)
          => /\ \A s \in Slots \ {t} :
                   slot[s].pc \notin {"idle", "done", "t_blocked"} => Runnable(s)
             /\ slot'[t].pc # "t_blocked"
                => /\ get_file_lock(Task(t)) \in DOMAIN lock'
                   /\ lock'[get_file_lock(Task(t))] = t
      ]_vars

\* C23: the reference of a record changes only at the commit of a store task
\* of that record that holds the lock of the path and has passed the duplicate
\* re-check and updated the reference; the same commit makes the record
\* STORED; a step that ends a task with an error leaves the reference alone.
C23_ReferenceChangedUnderLock ==
    [][/\ \A i \in DOMAIN rows \cap DOMAIN rows' :
             rows'[i].reference # rows[i].reference
             => \E s \in Slots :
                   /\ slot[s].model_id = i
                   /\ slot[s].op \in {"create", "reuse", "data", "meta"}
                   /\ slot[s].pc = "t_stored" /\ slot'[s].pc = "done"
                   /\ slot[s].pending_ref
                   /\ get_file_lock(Task(s)) \in DOMAIN lock
                   /\ lock[get_file_lock(Task(s))] = s
                   /\ rows'[i].reference = slot[s].reference
                   /\ rows'[i].storage_status = STORED
       /\ \A s \in Slots :
             (/\ RecordOf(s)
              /\ slot'[s].pc # slot[s].pc
              /\ \/ slot'[s].pc = "t_failed"
                 \/ slot[s].pc = "t_failed"
                 \/ slot'[s].escaped)
             => /\ slot[s].model_id \in DOMAIN rows'
                /\ rows'[slot[s].model_id].reference = rows[slot[s].model_id].reference
      ]_vars

C23_Witness ==
    \E s, t \in Slots :
        /\ slot[s].op = "meta" /\ slot[s].pc = "done" /\ slot[s].reference = "C"
        /\ RecordOf(s)
        /\ rows[slot[s].model_id].reference = "C"
        /\ rows[slot[s].model_id].storage_status = STORED
        /\ slot[t].op = "meta" /\ slot[t].pc = "done" /\ slot[t].reference = "C"
        /\ RecordOf(t) /\ slot[t].model_id # slot[s].model_id
        /\ slot[t].error = "it already exists"
        /\ rows[slot[t].model_id].storage_status = STORAGE_FAILED
        /\ rows[slot[t].model_id].reference = slot[t].model.reference
        /\ rows[slot[t].model_id].reference # "C"

\* a KiCad footprint record has the part of the uploaded file as reference and
\* the directory of the requested path as the directory of its path
DuplicateFootprint(q) ==
    \E i \in TableIds(FOOTPRINT) :
        /\ rows[i].cad_type = KICAD
        /\ rows[i].reference \in q.filename.refs
        /\ Dirname(rows[i].path) = Dirname(q.path)

\* C24: a create of a KiCad footprint that passed the checks of its path and of
\* its library is rejected as a duplicate exactly when a KiCad footprint record
\* has the same reference and the same directory; a record with the reference
\* in another directory does not cause the rejection.
C24_FootprintDuplicateSameDirectory ==
    [][\A s \in Slots :
          (/\ slot[s].pc = "idle" /\ slot'[s].op = "create"
           /\ slot'[s].cad_type = KICAD /\ slot'[s].file_type = FOOTPRINT
           /\ slot'[s].response \notin {"ApiError", "InvalidStorable"})
          => (slot'[s].response = "ResourceAlreadyExistsApiError"
              <=> DuplicateFootprint(slot'[s]))
      ]_vars

\* C25: for every record that is STORED, the file at the target path of the
\* record exists and holds the reference of the record.
C25_StoredMeansOnDisk ==
    \A i \in DOMAIN rows :
        rows[i].storage_status = STORED
        => /\ get_target_object_path(rows[i].cad_type, rows[i].file_type,
                                     rows[i].path) \in DOMAIN disk
           /\ is_present(disk[get_target_object_path(rows[i].cad_type,
                                 rows[i].file_type, rows[i].path)],
                         rows[i].reference)

\* C26: an update_metadata request with a description and no reference writes
\* the description; no step of the request, and no step of anything it
\* scheduled, changes the reference or the storage_status of the record, and
\* the request schedules no store task.
C26_DescriptionOnlyUpdate ==
    [][\A s \in Slots :
          (/\ slot'[s].op = "meta"
           /\ slot'[s].reference = None /\ slot'[s].description # None
           /\ slot'[s] # slot[s]
           /\ slot'[s].model_id \in DOMAIN rows)
          => /\ ~slot'[s].scheduled
             /\ slot'[s].model_id \in DOMAIN rows'
             /\ rows'[slot'[s].model_id].reference = rows[slot'[s].model_id].reference
             /\ rows'[slot'[s].model_id].storage_status
                   = rows[slot'[s].model_id].storage_status
             /\ (slot[s].pc = "m_commit")
                => rows'[slot'[s].model_id].description = slot[s].description
      ]_vars

\* C27: a record has a storage_error only while its storage_status is
\* STORAGE_FAILED.
C27_ErrorOnlyWhileFailed ==
    \A i \in DOMAIN rows :
        rows[i].storage_error # None => rows[i].storage_status = STORAGE_FAILED

\* the errors of the request-time validations
ValidationErrors ==
    {"ApiError", "InvalidStorable", "ResourceAlreadyExistsApiError",
     "ResourceNotFoundApiError"}

\* C28: the step at which a create_from_upload, create_from_existing,
\* update_data or update_metadata request fails a validation changes no record
\* and no file, and the request has scheduled no background task.
C28_FailedValidationChangesNothing ==
    [][\A s \in Slots :
          (/\ slot[s].pc # "done" /\ slot'[s].pc = "done"
           /\ slot'[s].op \in {"create", "reuse", "data", "meta"}
           /\ slot'[s].response \in ValidationErrors)
          => /\ rows' = rows
             /\ disk' = disk
             /\ nextId' = nextId
             /\ ~slot'[s].scheduled
      ]_vars

C28_Witness ==
    \E s, t \in Slots :
        /\ slot[s].op = "create" /\ slot[s].response = "ok" /\ RecordOf(s)
        /\ rows[slot[s].model_id].storage_status = STORED
        /\ slot[t].op = "create" /\ slot[t].pc = "done"
        /\ slot[t].response = "ResourceAlreadyExistsApiError"
        /\ ~slot[t].scheduled
        /\ DOMAIN rows = {1, 2, 3, 4}

\* ------------------------------------------- the inventory service: categories
\* the calls the clients make: category 9 does not exist, parent_id 0 is null
CategoryParentRequests ==
    {[category_id |-> k, parent_id |-> p] :
        k \in 1..NumCategories, p \in 0..NumCategories}
    \cup {[category_id |-> 9, parent_id |-> 1],
          [category_id |-> 1, parent_id |-> 9]}

RemoveParentRequests == {[category_id |-> k] : k \in 1..NumCategories \cup {9}}

\* InventoryCategoryModel.children: the rows whose parent_id is the category
children(category) ==
    {k \in DOMAIN category_parent : category_parent[k] = category}

RECURSIVE recursive_parent_search(_, _)
\* __recursive_parent_search: TRUE when it raises CyclicCategoryDependecy.
\* pending holds the categories still to visit, in the order of the calls; the
\* list ids_to_avoid is shared by all the calls and only tested for membership.
recursive_parent_search(ids_to_avoid, pending) ==
    IF pending = <<>> THEN FALSE
    ELSE LET category == Head(pending)
         IN IF category \in ids_to_avoid THEN TRUE
            ELSE recursive_parent_search(ids_to_avoid \cup {category},
                    Sorted(children(category)) \o Tail(pending))

InventoryUnchanged ==
    /\ UNCHANGED <<components, inventory_items, component_footprint_asc,
                   nextComponentId, nextItemId>>
    /\ UNCHANGED <<rows, nextId, disk, lock, slot, faults, scenario>>

\* set_category_parent: db.get of the category and the test of parent_id
SetCategoryParentGet(c) ==
    \E r \in CategoryParentRequests :
        /\ CanCall(c)
        /\ LET base == [IdleCall EXCEPT !.op = "set_category_parent",
                          !.category_id = r.category_id,
                          !.parent_id = r.parent_id]
           IN call' = [call EXCEPT ![c] =
                 IF r.category_id \notin DOMAIN category_parent
                 THEN Failed(base, "ResourceNotFoundApiError", r.category_id)
                 ELSE IF r.parent_id = 0
                 THEN Failed(base, "InvalidCategoryRelationError", 0)
                 ELSE [base EXCEPT !.pc = "c_parent",
                         !.loaded_parent = category_parent[r.category_id]]]
        /\ UNCHANGED <<category_parent, stocks, stock_movements>>
        /\ InventoryUnchanged

\* set_category_parent: the select of the parent with its children and the
\* search of the category below the parent
SetCategoryParentSearch(c) ==
    /\ call[c].pc = "c_parent"
    /\ call' = [call EXCEPT ![c] =
          IF call[c].parent_id \notin DOMAIN category_parent
          THEN Failed(call[c], "ResourceNotFoundApiError", call[c].parent_id)
          ELSE IF recursive_parent_search({call[c].category_id},
                                          <<call[c].parent_id>>)
          THEN Failed(call[c], "CyclicCategoryDependecy", call[c].category_id)
          ELSE [call[c] EXCEPT !.pc = "c_commit"]]
    /\ UNCHANGED <<category_parent, stocks, stock_movements>>
    /\ InventoryUnchanged

\* set_category_parent: category.parent_id = parent_id, db.commit(); the unit
\* of work writes the attribute when its value differs from the loaded one
SetCategoryParentCommit(c) ==
    /\ call[c].pc = "c_commit"
    /\ category_parent' =
          IF call[c].loaded_parent = call[c].parent_id THEN category_parent
          ELSE [category_parent EXCEPT ![call[c].category_id] = call[c].parent_id]
    /\ call' = [call EXCEPT ![c] = [@ EXCEPT !.pc = "done", !.response = "ok"]]
    /\ UNCHANGED <<stocks, stock_movements>>
    /\ InventoryUnchanged

\* remove_category_parent: db.get of the category and the test of its parent_id
RemoveCategoryParentGet(c) ==
    \E r \in RemoveParentRequests :
        /\ CanCall(c)
        /\ LET base == [IdleCall EXCEPT !.op = "remove_category_parent",
                          !.category_id = r.category_id]
           IN call' = [call EXCEPT ![c] =
                 IF r.category_id \notin DOMAIN category_parent
                 THEN Failed(base, "ResourceNotFoundApiError", r.category_id)
                 ELSE IF category_parent[r.category_id] = 0
                 THEN [base EXCEPT !.pc = "done", !.response = "ok"]
                 ELSE [base EXCEPT !.pc = "c_remove",
                         !.loaded_parent = category_parent[r.category_id]]]
        /\ UNCHANGED <<category_parent, stocks, stock_movements>>
        /\ InventoryUnchanged

\* remove_category_parent: category.parent_id = None, db.commit()
RemoveCategoryParentCommit(c) ==
    /\ call[c].pc = "c_remove"
    /\ category_parent' = [category_parent EXCEPT ![call[c].category_id] = 0]
    /\ call' = [call EXCEPT ![c] = [@ EXCEPT !.pc = "done", !.response = "ok"]]
    /\ UNCHANGED <<stocks, stock_movements>>
    /\ InventoryUnchanged

\* The inventory service: concurrent calls that set and remove the parent of a
\* category.
NextCategories ==
    \E c \in Calls :
        \/ SetCategoryParentGet(c)
        \/ SetCategoryParentSearch(c)
        \/ SetCategoryParentCommit(c)
        \/ RemoveCategoryParentGet(c)
        \/ RemoveCategoryParentCommit(c)

SpecCategories == InitComponentService /\ [][NextCategories]_vars

RECURSIVE Up(_, _)
\* the category n parents above category k (0 above a root)
Up(k, n) ==
    IF n = 0 \/ k = 0 THEN k ELSE Up(category_parent[k], n - 1)

\* p is below c in the category tree
Descendant(p, c) ==
    \E n \in 1..NumCategories : Up(p, n) = c

\* C29: after any sequence of set_category_parent and remove_category_parent
\* calls no category is its own ancestor.
C29_CategoryTreeAcyclic ==
    \A k \in DOMAIN category_parent : ~Descendant(k, k)

\* the decision of set_category_parent(c, p) the cycle test was written for:
\* rejected with the cyclic-dependency error exactly when p is c or below c
C29_RejectedExactlyWhenCyclic ==
    [][\A c \in Calls :
          (/\ call[c].pc = "c_parent" /\ call'[c].pc # "c_parent"
           /\ call[c].parent_id \in DOMAIN category_parent)
          => ((call'[c].response = "CyclicCategoryDependecy")
              <=> (\/ call[c].parent_id = call[c].category_id
                   \/ Descendant(call[c].parent_id, call[c].category_id)))
      ]_vars

\* ----------------------------------------------- the inventory service: stocks
\* a SingleStockMovement
Movement(item_id, location_id, quantity) ==
    [item_id |-> item_id, location_id |-> location_id, quantity |-> quantity]

\* the batches the clients send: item 9 and location 9 do not exist
MassStockRequests ==
    {<<Movement(1, 1, -2)>>,
     <<Movement(1, 1, -2), Movement(1, 2, 1)>>,
     <<Movement(1, 1, -1), Movement(1, 2, -1)>>,
     <<Movement(1, 1, -1), Movement(9, 1, 1)>>,
     <<Movement(1, 1, 1), Movement(1, 9, 1)>>,
     <<Movement(1, 1, -2), Movement(1, 1, -1)>>,
     <<Movement(1, 1, -1), Movement(1, 1, -1)>>}

StockLevelsRequests ==
    {[item_id |-> 1, location_id |-> 1, min_stock_level |-> 2],
     [item_id |-> 1, location_id |-> 2, min_stock_level |-> 0],
     [item_id |-> 9, location_id |-> 1, min_stock_level |-> 0]}

\* select(InventoryItemLocationStockModel) joined to the item and the location
\* of the given ids: the ids of the rows found
stock_ids(item_id, location_id) ==
    {i \in DOMAIN stocks :
        /\ stocks[i].item_id = item_id
        /\ stocks[i].location_id = location_id}

\* __update_item_location_stock: stock_min_level <= actual_stock + quantity
min_level_holds(stock_item, quantity) ==
    stock_item.stock_min_level <= stock_item.actual_stock + quantity

\* the session is rolled back and the error raised
RolledBack(base, error, id) ==
    [Failed(base, error, id) EXCEPT !.loaded = <<>>, !.entries = <<>>]

\* POST /stocks/updates: the request arrives
StockMassUpdateBegin(c) ==
    \E movements \in MassStockRequests :
        /\ CanCall(c)
        /\ call' = [call EXCEPT ![c] =
              [IdleCall EXCEPT !.op = "stock_mass_update", !.pc = "u_loop",
                 !.movements = movements]]
        /\ UNCHANGED <<category_parent, stocks, stock_movements>>
        /\ InventoryUnchanged

\* stock_mass_update: one turn of the loop. The search returns the row of the
\* stock, or the object the session already holds for it; the movement is
\* checked and applied to the object; the entry and the object are added to
\* the session. Any exception rolls the session back.
StockMassUpdateMovement(c) ==
    /\ call[c].pc = "u_loop"
    /\ LET itm == call[c].movements[call[c].checked + 1]
           ids == stock_ids(itm.item_id, itm.location_id)
           id == CHOOSE i \in ids : TRUE
           stock_item == IF id \in DOMAIN call[c].loaded
                         THEN call[c].loaded[id] ELSE stocks[id]
           updated == [stock_item EXCEPT
                          !.actual_stock = stock_item.actual_stock + itm.quantity]
       IN call' = [call EXCEPT ![c] =
             IF ids = {}
             THEN RolledBack(call[c], "ResourceNotFoundApiError", 0)
             ELSE IF Cardinality(ids) > 1
             THEN RolledBack(call[c], "InvalidMassStockUpdateError", 0)
             ELSE IF ~min_level_holds(stock_item, itm.quantity)
             THEN RolledBack(call[c], "InvalidMassStockUpdateError", id)
             ELSE [call[c] EXCEPT
                     !.loaded = (id :> updated) @@ call[c].loaded,
                     !.entries = Append(call[c].entries,
                                    [stock_item_id |-> id,
                                     stock_change |-> itm.quantity]),
                     !.result = Append(call[c].result, updated.actual_stock),
                     !.checked = call[c].checked + 1,
                     !.pc = IF call[c].checked + 1 = Len(call[c].movements)
                            THEN "u_commit" ELSE "u_loop"]]
    /\ UNCHANGED <<category_parent, stocks, stock_movements>>
    /\ InventoryUnchanged

\* stock_mass_update: db.commit() writes the actual_stock of every object of
\* the session and inserts the movement entries
StockMassUpdateCommit(c) ==
    /\ call[c].pc = "u_commit"
    /\ stocks' = [i \in DOMAIN stocks |->
          IF i \in DOMAIN call[c].loaded
          THEN [stocks[i] EXCEPT !.actual_stock = call[c].loaded[i].actual_stock]
          ELSE stocks[i]]
    /\ stock_movements' = stock_movements \o call[c].entries
    /\ call' = [call EXCEPT ![c] = [@ EXCEPT !.pc = "done", !.response = "ok"]]
    /\ UNCHANGED category_parent
    /\ InventoryUnchanged

\* update_item_location_stock_levels: __get_item_location_stock
StockLevelsGet(c) ==
    \E r \in StockLevelsRequests :
        /\ CanCall(c)
        /\ LET base == [IdleCall EXCEPT
                          !.op = "update_item_location_stock_levels",
                          !.movements = <<r>>]
               ids == stock_ids(r.item_id, r.location_id)
           IN call' = [call EXCEPT ![c] =
                 IF ids = {}
                 THEN Failed(base, "ResourceNotFoundApiError", r.item_id)
                 ELSE [base EXCEPT !.pc = "l_commit",
                         !.checked = CHOOSE i \in ids : TRUE]]
        /\ UNCHANGED <<category_parent, stocks, stock_movements>>
        /\ InventoryUnchanged

\* update_item_location_stock_levels: item_stock.stock_min_level =
\* min_stock_level when it is at least -1.0, db.commit()
StockLevelsCommit(c) ==
    /\ call[c].pc = "l_commit"
    /\ stocks' =
          IF call[c].movements[1].min_stock_level >= -1
          THEN [stocks EXCEPT ![call[c].checked].stock_min_level =
                   call[c].movements[1].min_stock_level]
          ELSE stocks
    /\ call' = [call EXCEPT ![c] = [@ EXCEPT !.pc = "done", !.response = "ok"]]
    /\ UNCHANGED <<category_parent, stock_movements>>
    /\ InventoryUnchanged

\* The inventory service: concurrent mass stock updates and updates of the
\* stock levels.
NextStocks ==
    \E c \in Calls :
        \/ StockMassUpdateBegin(c)
        \/ StockMassUpdateMovement(c)
        \/ StockMassUpdateCommit(c)
        \/ StockLevelsGet(c)
        \/ StockLevelsCommit(c)

SpecStocks == InitComponentService /\ [][NextStocks]_vars

\* a stock_mass_update that fails changes no stock level and records no
\* movement, and no step before its commit writes anything
C30_FailureChangesNothing ==
    [][\A c \in Calls :
          (/\ call'[c].op = "stock_mass_update"
           /\ call'[c] # call[c]
           /\ call[c].pc # "u_commit")
          => /\ stocks' = stocks
             /\ stock_movements' = stock_movements
             /\ call'[c].response # "ok"
      ]_vars

\* C30: stock_mass_update is all-or-nothing: a batch with a failing movement
\* changes no stock level and records no movement entry, and when the batch
\* succeeds every stock it touched has actual_stock >= stock_min_level and
\* every movement of the batch is recorded.
C30_MassUpdateAllOrNothing ==
    [][\A c \in Calls :
          (/\ call'[c].op = "stock_mass_update"
           /\ call'[c] # call[c])
          => IF call'[c].response = "ok"
             THEN /\ \A i \in DOMAIN call[c].loaded :
                        stocks'[i].actual_stock >= stocks'[i].stock_min_level
                  /\ stock_movements' = stock_movements \o call[c].entries
                  /\ Len(call[c].entries) = Len(call[c].movements)
             ELSE /\ stocks' = stocks
                  /\ stock_movements' = stock_movements
      ]_vars

====
